---- MODULE Spec2Model ----
(***************************************************************************)
(* rudelblinken-filesystem: the catalog of files kept over one flash       *)
(* storage (src/rudelblinken-filesystem/src/lib.rs).                       *)
(*                                                                         *)
(* The flash is modelled block by block.  Every block has a head (its      *)
(* first 64 bytes, where a file's metadata lives) and a body (the rest).   *)
(* A file's content is identified by a content id and its length, and is   *)
(* split into parts, one per block it touches.                             *)
(***************************************************************************)
EXTENDS Integers, Sequences, FiniteSets, TLC

\* ------------------------------------------------------------------ sizes
\* Number of blocks of the storage (T::BLOCKS).
BLOCKS == 3
\* Largest number of Readers a client holds on one file.
MaxReaders == 1
\* Largest number of write_file calls in one run.
MaxWrites == 3
\* Bytes per block (T::BLOCK_SIZE).
BLOCK_SIZE == 4096
\* size_of::<FileMetadata>(): the metadata header is 64 bytes.
MetadataSize == 64
\* Longest file name in bytes.
MaxNameLen == 16
SIZE == BLOCK_SIZE * BLOCKS
\* u16 arithmetic wraps at 2^16.
U16 == 2 ^ 16

\* ----------------------------------------------------------------- inputs
LongName == "seventeen_letters"
Names == {"a", "b", LongName}
ContentIds == {1, 2}
\* Content lengths: a short file, and one that leaves a single block free
\* and fills its last block exactly.
Lengths ==
    { 9, (BLOCKS - 1) * BLOCK_SIZE - MetadataSize }
\* The largest content that fits, and lengths that do not fit.
Largest == SIZE - MetadataSize
TooLong == { SIZE - MetadataSize + 1, SIZE, SIZE + 1 }
ZeroHash == <<"zero">>
blake3(c, len) == <<"blake3", c, len>>
\* The hash handed to write_file with content c: the content's BLAKE3 for
\* content 1, 32 zero bytes (as the tests pass) for the others.
HashGiven(c, len) == IF c = 1 THEN blake3(c, len) ELSE ZeroHash

VARIABLES
    storage,          \* flash: block index -> [head, body]
    files,            \* Filesystem.files, the catalog
    writes,           \* write_file calls made so far
    lastOp,           \* the last operation and its result
    service,          \* FileUploadService: currently_receiving, last_error
    host,             \* WasmHost and its guest: fuel, host_events, ...
    management,       \* CatManagementService and the wasm-runner thread
    threads,          \* thread -> the callback it runs and its position in it
    target,           \* rudelctl's UpdateTarget: the upload_file calls in progress
    nvs               \* the storage's named metadata: the first_block slot

vars == <<storage, files, writes, lastOp, service, host, management, threads, target, nvs>>

\* --------------------------------------------------------------- helpers
CeilDiv(a, b) == (a + b - 1) \div b
Max(S) == CHOOSE x \in S : \A y \in S : y <= x
Min(S) == CHOOSE x \in S : \A y \in S : x <= y
Blocks == 0 .. (BLOCKS - 1)

\* Number of blocks a file of the given content length takes.
length_in_blocks(len) == CeilDiv(len + MetadataSize, BLOCK_SIZE)

\* The blocks of the ring touched by a file at byte address addr.
BlockRange(addr, len) ==
    { ((addr \div BLOCK_SIZE) + j) % BLOCKS : j \in 0 .. (length_in_blocks(len) - 1) }

\* ------------------------------------------------------------ flash cells
Erased == [k |-> "erased"]
Corrupt == [k |-> "corrupt"]
Hdr(name, len, hash) ==
    [k |-> "hdr", name |-> name, length |-> len, hash |-> hash,
     ready |-> TRUE, marked |-> FALSE, deleted |-> FALSE]
Data(c, len, part) == [k |-> "data", c |-> c, l |-> len, part |-> part]
ErasedBlock == [head |-> Erased, body |-> Erased]

\* Flash can only clear bits: programming an erased cell stores the value,
\* programming the value already there changes nothing, anything else
\* leaves the bitwise AND of both, which is neither.
Program(old, new) ==
    IF old = Erased THEN new
    ELSE IF old = new THEN old
    ELSE Corrupt

\* Bytes of the last block a file of this length touches.
LastBlockBytes(len) ==
    len + MetadataSize - (length_in_blocks(len) - 1) * BLOCK_SIZE

\* Does part j of a file's content reach into the body of its block?
TouchesBody(len, j) ==
    \/ j < length_in_blocks(len) - 1
    \/ LastBlockBytes(len) > MetadataSize

\* Storage::write(addr, metadata): the 64 bytes at a block boundary.
WriteHead(st, addr, h) ==
    LET b == (addr \div BLOCK_SIZE) % BLOCKS
    IN  [st EXCEPT ![b].head = Program(@, h)]

\* Parts j .. n-1 of the content, each programmed into its block.
RECURSIVE WriteParts(_, _, _, _, _, _)
WriteParts(st, b0, c, len, j, n) ==
    IF j >= n THEN st
    ELSE LET b == (b0 + j) % BLOCKS
             d == Data(c, len, j)
             st1 == IF j = 0
                    THEN [st EXCEPT ![b].body = Program(@, d)]
                    ELSE IF TouchesBody(len, j)
                         THEN [st EXCEPT ![b].head = Program(@, d),
                                         ![b].body = Program(@, d)]
                         ELSE [st EXCEPT ![b].head = Program(@, d)]
         IN  WriteParts(st1, b0, c, len, j + 1, n)

\* Storage::write(addr + 64, content): the content follows the metadata and
\* wraps around the end of the storage.
WriteContent(st, addr, c, len) ==
    WriteParts(st, (addr \div BLOCK_SIZE) % BLOCKS, c, len, 0, length_in_blocks(len))

\* The same write cut short by a power loss after its first n parts.
WriteContentPartly(st, addr, c, len, n) ==
    WriteParts(st, (addr \div BLOCK_SIZE) % BLOCKS, c, len, 0, n)

\* Storage::write fails for an address or a length outside the storage.
WriteInRange(addr, len) == addr < SIZE /\ len <= SIZE

\* The bytes of a file's content as they are on flash now.
Bytes(st, addr, len) ==
    [j \in 0 .. (length_in_blocks(len) - 1) |->
        LET cell == st[((addr \div BLOCK_SIZE) + j) % BLOCKS]
        IN  IF j = 0 THEN <<cell.body>>
            ELSE IF TouchesBody(len, j) THEN <<cell.head, cell.body>>
            ELSE <<cell.head>>]

\* The bytes of content c as they were handed to write_file.
ContentBytes(c, len) ==
    [j \in 0 .. (length_in_blocks(len) - 1) |->
        IF j = 0 THEN <<Data(c, len, 0)>>
        ELSE IF TouchesBody(len, j) THEN <<Data(c, len, j), Data(c, len, j)>>
        ELSE <<Data(c, len, j)>>]

\* Storage::erase of every block of a file.
EraseBlocks(st, addr, len) ==
    [b \in Blocks |-> IF b \in BlockRange(addr, len) THEN ErasedBlock ELSE st[b]]

\* ---------------------------------------------------------- free_ranges
\* BTreeMap<u16, u16>: start block -> length in blocks.
Insert(fr, key, value) ==
    [x \in (DOMAIN fr) \cup {key} |-> IF x = key THEN value ELSE fr[x]]
Remove(fr, key) == [x \in (DOMAIN fr) \ {key} |-> fr[x]]

\* u16 arithmetic: the wrapped value, and whether it overflowed.
Wrap16(x) == (x + U16) % U16
Overflows(x) == x < 0 \/ x >= U16

Running(fr) == [st |-> "ok", fr |-> fr]
Stopped(why) == [st |-> why, fr |-> <<>>]

\* One iteration of the loop over self.files: carve the file's blocks out of
\* the free range that surrounds its start.
carve_file(fr, file, oc) ==
    LET start_block == file.address % U16
        blocks == length_in_blocks(file.length) % U16
        end_block == Wrap16(start_block + blocks)
        below == {key \in DOMAIN fr : key <= start_block}
        surrounding_start == Max(below)
        surrounding_length == fr[surrounding_start]
        space_before == start_block - surrounding_start
        surrounding_end == Wrap16(surrounding_start + surrounding_length)
        space_after == Wrap16(surrounding_end - end_block)
    IN  IF oc /\ Overflows(start_block + blocks) THEN Stopped("panic")
        ELSE IF below = {} THEN Stopped("FilesystemError")
        ELSE IF oc /\ ( \/ Overflows(surrounding_start + surrounding_length)
                        \/ Overflows(surrounding_end - end_block) )
             THEN Stopped("panic")
        ELSE IF space_before = 0 /\ space_after = 0
             THEN Running(Remove(fr, surrounding_start))
        ELSE IF space_before = 0
             THEN Running(Insert(Remove(fr, surrounding_start), end_block, space_after))
        ELSE IF space_after = 0
             THEN Running(Insert(fr, start_block, space_before))
        ELSE Running(Insert(Insert(fr, start_block, space_before), end_block, space_after))

RECURSIVE carve_files(_, _, _, _)
carve_files(acc, fs, i, oc) ==
    IF acc.st # "ok" \/ i > Len(fs) THEN acc
    ELSE carve_files(carve_file(acc.fr, fs[i], oc), fs, i + 1, oc)

\* "Fix the last entry for wraparound".
fix_wraparound(fr, oc) ==
    LET last_free_space_start == IF DOMAIN fr = {} THEN 0 ELSE Max(DOMAIN fr)
        wraparound_length ==
            IF last_free_space_start > BLOCKS THEN last_free_space_start - BLOCKS ELSE 0
        first_range_length == fr[0]
        new_first_range_length == Wrap16(first_range_length - wraparound_length)
        trimmed ==
            IF new_first_range_length > 0
            THEN Insert(Remove(fr, 0), wraparound_length, new_first_range_length)
            ELSE Remove(fr, 0)
    IN  IF wraparound_length = 0 THEN Running(fr)
        ELSE IF 0 \notin DOMAIN fr THEN Stopped("FilesystemError")
        ELSE IF oc /\ ( \/ Overflows(first_range_length - wraparound_length)
                        \/ Overflows(BLOCKS - last_free_space_start) )
             THEN Stopped("panic")
        ELSE Running(Insert(trimmed, last_free_space_start,
                            Wrap16(BLOCKS - last_free_space_start)))

\* max_by over the ranges in key order: of several longest, the last one.
longest_range(fr) ==
    LET best == Max({fr[key] : key \in DOMAIN fr})
    IN  Max({key \in DOMAIN fr : fr[key] = best})

Result(tag, addr) == [tag |-> tag, addr |-> addr]

\* A free canvas one block short of the storage.
initial_free_ranges_short == (0 :> (BLOCKS - 1))

\* free_ranges.insert(0, T::BLOCKS as u16 * 2)
initial_free_ranges == (0 :> (BLOCKS * 2))

\* The end of find_free_space: the longest range, if it is long enough.
choose_range(fr, length) ==
    IF DOMAIN fr = {} THEN Result("NoFreeSpace", 0)
    ELSE IF fr[longest_range(fr)] * BLOCK_SIZE < length THEN Result("NotEnoughSpace", 0)
    ELSE Result("Ok", longest_range(fr) * BLOCK_SIZE)

\* find_free_space after the wraparound fix.
after_fix(fixed, length) ==
    IF fixed.st # "ok" THEN Result(fixed.st, 0) ELSE choose_range(fixed.fr, length)

\* find_free_space after the loop over the files.
after_carve(carved, length, oc) ==
    IF carved.st # "ok" THEN Result(carved.st, 0)
    ELSE after_fix(fix_wraparound(carved.fr, oc), length)

\* Filesystem::find_free_space(length): Ok with a byte address, an error, or
\* a panic of a build that checks integer overflow.
find_free_space(fs, length, oc) ==
    after_carve(carve_files(Running(initial_free_ranges), fs, 1, oc), length, oc)

\* ------------------------------------------------------------ File handles
\* A catalog entry: the File with its in-memory counters.  content is the
\* catalog's own strong reference (None after delete_file), readers counts
\* the Readers clients hold, weak says that a client holds a Weak handle.
\* written is what the file's content was when the entry was created;
\* touched says that a block of the file was programmed or erased since the
\* client's Weak handle was made.
Entry(name, addr, len, bytes) ==
    [name |-> name, address |-> addr, length |-> len, content |-> TRUE,
     readers |-> 0, weak |-> FALSE, written |-> bytes, touched |-> FALSE]

\* The catalog, with every file marked that a change of the flash touched.
Touch(fs, st, st2) ==
    [i \in DOMAIN fs |->
        IF \E b \in BlockRange(fs[i].address, fs[i].length) : st[b] # st2[b]
        THEN [fs[i] EXCEPT !.touched = TRUE]
        ELSE fs[i]]

\* Touch for every file but the one just pushed.
TouchOlder(fs, pushed, st, st2) ==
    IF pushed
    THEN Append(Touch(SubSeq(fs, 1, Len(fs) - 1), st, st2), fs[Len(fs)])
    ELSE Touch(fs, st, st2)

HeadAt(st, addr) == st[(addr \div BLOCK_SIZE) % BLOCKS].head

\* File::from_storage / FileInformation::new: the metadata at the address
\* is a file's, it is ready and it is not deleted.
Opens(st, addr) ==
    LET h == HeadAt(st, addr)
    IN  h.k = "hdr" /\ h.ready /\ ~h.deleted

\* File::no_strong_references_left: neither the catalog nor a Reader holds
\* the content.
no_strong_references_left(file) == ~file.content /\ file.readers = 0

\* File::valid: the catalog still holds the content, and the metadata on
\* flash is this file's, ready and not marked for deletion.
valid(file, st) ==
    LET h == HeadAt(st, file.address)
    IN  /\ file.content
        /\ h.k = "hdr" /\ h.ready /\ ~h.marked /\ ~h.deleted
        /\ h.name = file.name /\ h.length = file.length

\* Weak::upgrade: fails for a file marked for deletion and for one whose
\* metadata on flash is no longer the one the handle was made for.
upgrade(file, st) ==
    LET h == HeadAt(st, file.address)
    IN  /\ file.content \/ file.readers > 0
        /\ h.k = "hdr" /\ h.ready /\ ~h.marked /\ ~h.deleted
        /\ h.name = file.name /\ h.length = file.length

\* FileContent::mark_for_deletion: sets the flag in the metadata on flash.
mark_for_deletion(st, addr) ==
    LET b == (addr \div BLOCK_SIZE) % BLOCKS
    IN  IF st[b].head.k = "hdr" THEN [st EXCEPT ![b].head.marked = TRUE] ELSE st

\* Vec::swap_remove(index), indices from 1.
swap_remove(fs, index) ==
    IF index = Len(fs) THEN SubSeq(fs, 1, Len(fs) - 1)
    ELSE [SubSeq(fs, 1, Len(fs) - 1) EXCEPT ![index] = fs[Len(fs)]]

\* ------------------------------------------------------------- Filesystem
first_block == 0

\* Filesystem::new: the scan over the blocks, from first_block.
RECURSIVE scan(_, _, _)
scan(st, block_number, found) ==
    IF block_number >= BLOCKS THEN found
    ELSE LET current_block_number == (block_number + first_block) % BLOCKS
             addr == current_block_number * BLOCK_SIZE
             h == HeadAt(st, addr)
         IN  IF ~Opens(st, addr) THEN scan(st, block_number + 1, found)
             ELSE scan(st,
                       block_number + ((h.length + 64) \div BLOCK_SIZE) + 1,
                       Append(found, Entry(h.name, addr, h.length,
                                           Bytes(st, addr, h.length))))

Filesystem_new(st) == scan(st, 0, <<>>)

\* Filesystem::read_file: the index of the first valid file of that name,
\* 0 for None.
read_file(fs, st, name) ==
    LET hits == {i \in 1 .. Len(fs) : fs[i].name = name /\ valid(fs[i], st)}
    IN  IF hits = {} THEN 0 ELSE Min(hits)

\* Filesystem::read_file_by_hash: the index of the first valid file whose
\* metadata carries that hash, 0 for None.
read_file_by_hash(fs, st, hash) ==
    LET hits == {i \in 1 .. Len(fs) :
                    valid(fs[i], st) /\ HeadAt(st, fs[i].address).hash = hash}
    IN  IF hits = {} THEN 0 ELSE Min(hits)

\* A sweep that removes every file no Reader holds.
cleanup_unread(fs, index) == SelectSeq(fs, LAMBDA file : file.readers > 0)

\* Filesystem::cleanup_files: swap_remove, from the highest index down, of
\* every file without strong references.
RECURSIVE cleanup_from(_, _)
cleanup_from(fs, index) ==
    IF index = 0 THEN fs
    ELSE IF no_strong_references_left(fs[index])
         THEN cleanup_from(swap_remove(fs, index), index - 1)
         ELSE cleanup_from(fs, index - 1)

cleanup_files(fs) == cleanup_from(fs, Len(fs))

Outcome(res, fs, st, addr) == [res |-> res, files |-> fs, storage |-> st, addr |-> addr]

\* write_file after its storage writes: the file is read back, its length
\* and name are compared, and it is pushed to the catalog.
verify_file(cleaned, st2, free_location, name, c, len) ==
    LET h == HeadAt(st2, free_location)
    IN  IF ~Opens(st2, free_location)
        THEN Outcome("CreateFileInformationError", cleaned, st2, free_location)
        ELSE IF h.length # len \/ h.name # name
             THEN Outcome("ReadFileDoesNotMatch", cleaned, st2, free_location)
        ELSE Outcome("Ok",
                     Append(cleaned, Entry(h.name, free_location, h.length,
                                           ContentBytes(c, len))),
                     st2, free_location)

\* write_file from the storage writes on: the metadata, then the content.
write_at(cleaned, st, free_location, metadata, name, c, len) ==
    IF ~WriteInRange(free_location, MetadataSize)
    THEN Outcome("WriteStorageError", cleaned, st, free_location)
    ELSE IF ~WriteInRange(free_location + MetadataSize, len)
         THEN Outcome("WriteStorageError", cleaned,
                      WriteHead(st, free_location, metadata), free_location)
    ELSE verify_file(cleaned,
                     WriteContent(WriteHead(st, free_location, metadata),
                                  free_location, c, len),
                     free_location, name, c, len)

\* write_file after cleanup_files.
write_cleaned(cleaned, free, st, name, c, len, hash) ==
    IF Len(name) > MaxNameLen THEN Outcome("FileNameTooLong", cleaned, st, 0)
    ELSE IF free.tag # "Ok" THEN Outcome(free.tag, cleaned, st, 0)
    ELSE write_at(cleaned, st, free.addr, Hdr(name, len % U16, hash), name, c, len)

\* Filesystem::write_file(name, content, hash).
write_file(fs, st, name, c, len, hash, oc) ==
    write_cleaned(cleanup_files(fs),
                  find_free_space(cleanup_files(fs), len + MetadataSize, oc),
                  st, name, c, len, hash)

\* Filesystem::delete_file(filename).
delete_at(fs, st, index) ==
    LET file == fs[index]
        marked == IF file.content THEN mark_for_deletion(st, file.address) ELSE st
        dropped == [fs EXCEPT ![index].content = FALSE]
    IN  IF no_strong_references_left(dropped[index])
        THEN Outcome("Ok", swap_remove(dropped, index),
                     IF file.content
                     THEN EraseBlocks(marked, file.address, file.length)
                     ELSE marked,
                     file.address)
        ELSE Outcome("Ok", dropped, marked, file.address)

delete_file(fs, st, filename) ==
    LET hits == {i \in 1 .. Len(fs) : fs[i].name = filename}
    IN  IF hits = {} THEN Outcome("FileNotFound", fs, st, 0)
        ELSE delete_at(fs, st, Min(hits))

\* --------------------------------------------------------- upload service
\* FileUploadService::new: no upload is received, no error was logged.
None == [k |-> "None"]
FileUploadService_new == [currently_receiving |-> None, last_error |-> None]

\* Bitwise exclusive or of two bytes.
RECURSIVE Xor(_, _)
Xor(a, b) ==
    IF a = 0 THEN b
    ELSE IF b = 0 THEN a
    ELSE (((a % 2) + (b % 2)) % 2) + 2 * Xor(a \div 2, b \div 2)

\* Bitwise and of two bytes.
RECURSIVE And(_, _)
And(a, b) ==
    IF a = 0 \/ b = 0 THEN 0
    ELSE ((a % 2) * (b % 2)) + 2 * And(a \div 2, b \div 2)

\* An erased byte of flash; programming a byte can only clear bits.
ErasedByte == 255
ProgramByte(old, new) == And(old, new)

\* ----------------------------------------------------------- FileMetadata
\* FileFlags, a bit each in the u16 at the start of the metadata.  Ready,
\* MarkedForDeletion and Deleted have no explicit value and get the lowest
\* bits the markers leave unused.
MarkerHighA == 1
MarkerHighB == 32
MarkerHighC == 16384
MarkerLowA == 4
MarkerLowB == 512
MarkerLowC == 16
Ready == 2
MarkedForDeletion == 8
Deleted == 64

\* The flags and the hash of a metadata on flash, bit by bit; the hash is
\* shortened to four bits.  Erased flash is all ones.
ErasedHash == 15
ErasedMetadata == [flags |-> U16 - 1, length |-> U16 - 1, hash |-> ErasedHash]

\* FileMetadata::new: the three high markers, the length, a hash of zeros.
FileMetadata_new(length) ==
    [flags |-> MarkerHighA + MarkerHighB + MarkerHighC, length |-> length, hash |-> 0]

\* BitFlags::contains for one flag.
contains(flags, flag) == And(flags, flag) = flag

\* FileMetadata::valid_marker on the bits: the high markers are set, the
\* low ones clear.
valid_marker_bits(metadata) ==
    /\ contains(metadata.flags, MarkerHighA + MarkerHighB + MarkerHighC)
    /\ And(metadata.flags, MarkerLowA + MarkerLowB + MarkerLowC) = 0

\* Storage::write on flash: a bit that is 0 stays 0.
program_metadata(stored, metadata) ==
    [flags |-> And(stored.flags, metadata.flags),
     length |-> And(stored.length, metadata.length),
     hash |-> And(stored.hash, metadata.hash)]

\* FileMetadata::new_to_storage
new_to_storage(stored, length) == program_metadata(stored, FileMetadata_new(length))

\* FileMetadata::set_flag_in_storage: the flags are written over the
\* first two bytes of the metadata.
set_flag_in_storage(stored, flag) == [stored EXCEPT !.flags = And(@, flag)]

\* commit writes the hash of the content into the metadata.
write_hash(stored, hash) == [stored EXCEPT !.hash = And(@, hash)]

\* crc::CRC_8_LTE: polynomial 0x9b, init 0, not reflected, no final xor.
CRC_8_LTE == 155

\* n shift steps of the CRC register.
RECURSIVE crc8_shift(_, _)
crc8_shift(crc, n) ==
    IF n = 0 THEN crc
    ELSE crc8_shift(IF crc >= 128 THEN Xor((crc * 2) % 256, CRC_8_LTE)
                    ELSE (crc * 2) % 256,
                    n - 1)

RECURSIVE crc8_from(_, _, _)
crc8_from(crc, data, i) ==
    IF i > Len(data) THEN crc
    ELSE crc8_from(crc8_shift(Xor(crc, data[i]), 8), data, i + 1)

\* crc8_generator.checksum(data)
checksum(data) == crc8_from(0, data, 1)

\* A file's content made of plain bytes, as Bytes reads it back from flash.
ContentCell(bytes) == [k |-> "content", bytes |-> bytes]
UploadBytes(bytes) == (0 :> <<ContentCell(bytes)>>)

\* blake3::Hasher over the bytes of a file.
blake3_hash(bytes) == <<"blake3", bytes>>

\* UploadRequest::chunk_count
chunk_count(request) == CeilDiv(request.file_size, request.chunk_size)

\* load_checksums takes the checksums from the request up to this many chunks.
InlineChecksums == 32

\* A result with a value.
Ok(value) == [res |-> "Ok", value |-> value]
Err(why) == [res |-> why, value |-> None]

\* load_checksums after get_file found the checksums file.
checksums_of_file(fs, st, file, count) ==
    IF ~upgrade(file, st) THEN Err("FailedToReadChecksums")
    ELSE IF file.length # count THEN Err("WrongNumberOfChecksums")
    ELSE Ok(Bytes(st, file.address, file.length)[0][1].bytes)

\* FileUploadService::load_checksums
load_checksums(fs, st, checksums, count) ==
    IF count <= InlineChecksums THEN Ok(SubSeq(checksums, 1, count))
    ELSE IF read_file_by_hash(fs, st, checksums) = 0 THEN Err("ChecksumFileDoesNotExist")
    ELSE checksums_of_file(fs, st, fs[read_file_by_hash(fs, st, checksums)], count)

\* The Writer of a new file: its region is erased.
Writer(name, addr, length) ==
    [name |-> name, address |-> addr, length |-> length, pos |-> 0,
     content |-> [i \in 1 .. length |-> ErasedByte]]

\* get_file_writer after the allocation.
writer_at(free, name, length) ==
    IF free.tag = "panic" THEN Err("panic")
    ELSE IF free.tag # "Ok" THEN Err("FailedToCreateFile")
    ELSE Ok(Writer(name, free.addr, length))

\* Filesystem::get_file_writer(name, length, hash): the allocation of
\* write_file, and a Writer of the region.
get_file_writer(fs, name, length, oc) ==
    writer_at(find_free_space(fs, length + MetadataSize, oc), name, length)

\* A new session that takes every chunk as received.
IncompleteFile_stale(hash, checksums, chunk_length, length, writer, name) ==
    [incomplete_file |-> writer,
     received_chunks |-> [i \in 1 .. Len(checksums) |-> TRUE],
     checksums |-> checksums, chunk_length |-> chunk_length, length |-> length,
     name |-> name, hash |-> hash]

\* IncompleteFile::new
IncompleteFile_new(hash, checksums, chunk_length, length, writer, name) ==
    [incomplete_file |-> writer,
     received_chunks |-> [i \in 1 .. Len(checksums) |-> FALSE],
     checksums |-> checksums, chunk_length |-> chunk_length, length |-> length,
     name |-> name, hash |-> hash]

\* start_upload after load_checksums.
start_with(checksums, writer, request, random_name) ==
    IF checksums.res # "Ok" THEN Err(checksums.res)
    ELSE IF writer.res # "Ok" THEN Err(writer.res)
    ELSE Ok(IncompleteFile_new(request.hash, checksums.value, request.chunk_size,
                               request.file_size, writer.value, random_name))

\* FileUploadService::start_upload
start_upload(fs, st, request, random_name, oc) ==
    start_with(load_checksums(fs, st, request.checksums, chunk_count(request)),
               get_file_writer(fs, random_name, request.file_size, oc),
               request, random_name)

\* FileUploadService::request_upload, called on a write to START_UPLOAD.
request_upload(svc, fs, st, request, random_name, oc) ==
    IF request.k # "UploadRequest" THEN [res |-> "MalformedUploadRequest", service |-> svc]
    ELSE LET started == start_upload(fs, st, request, random_name, oc)
         IN  IF started.res # "Ok" THEN [res |-> started.res, service |-> svc]
             ELSE [res |-> "Ok",
                   service |-> [svc EXCEPT !.currently_receiving = started.value]]

\* Writer::seek(SeekFrom::Start(offset))
writer_seek(writer, offset) == [writer EXCEPT !.pos = offset]

\* Writer::write: the bytes are programmed into the region from the
\* position on, and the position moves behind them.
writer_write(writer, data) ==
    [writer EXCEPT
        !.pos = @ + Len(data),
        !.content =
            [i \in 1 .. writer.length |->
                IF i > writer.pos /\ i <= writer.pos + Len(data)
                THEN ProgramByte(writer.content[i], data[i - writer.pos])
                ELSE writer.content[i]]]

\* Every chunk goes where the last write ended.
chunk_offset_append(file, index) == file.incomplete_file.pos

\* receive_chunk: the offset of a chunk in the file.
chunk_offset(file, index) == file.chunk_length * index

\* IncompleteFile::receive_chunk.  flash names the storage operation that
\* fails during the call, if one does.
receive_chunk(file, data, index, oc, flash) ==
    LET last == Len(file.checksums) - 1
        offset == chunk_offset(file, index)
    IN  IF oc /\ Len(file.checksums) = 0 THEN Err("panic")
        ELSE IF index # last /\ Len(data) # file.chunk_length THEN Err("InvalidLength")
        ELSE IF index = last /\ Len(data) # file.length % file.chunk_length
             THEN Err("InvalidLength")
        ELSE IF index >= Len(file.checksums) THEN Err("panic")
        ELSE IF file.checksums[index + 1] # checksum(data) THEN Err("WrongChecksum")
        ELSE IF flash = "write" \/ offset + Len(data) > file.length
             THEN Err("storage panic")
        ELSE Ok([file EXCEPT
                    !.incomplete_file = writer_write(writer_seek(@, offset), data),
                    !.received_chunks[index + 1] = TRUE])

\* IncompleteFile::get_missing_chunks
get_missing_chunks(file) ==
    SelectSeq([i \in 1 .. Len(file.received_chunks) |-> i - 1],
              LAMBDA index : ~file.received_chunks[index + 1])

\* IncompleteFile::chunk_count
IncompleteFile_chunk_count(file) == Len(file.received_chunks) % U16

\* A bitmap test that is satisfied by the first received chunk.
is_started(file) == \E i \in 1 .. Len(file.received_chunks) : file.received_chunks[i]

\* IncompleteFile::is_complete
is_complete(file) == \A i \in 1 .. Len(file.received_chunks) : file.received_chunks[i]

\* Writer::commit: the BLAKE3 of the region goes into the metadata, READY is
\* set, and the file enters the catalog.
commit_storage(writer, st) ==
    LET b == (writer.address \div BLOCK_SIZE) % BLOCKS
        bytes == ContentCell(writer.content)
    IN  [st EXCEPT
            ![b].head = Program(@, Hdr(writer.name, writer.length,
                                       blake3_hash(UploadBytes(writer.content)))),
            ![b].body = Program(@, bytes)]

commit_files(writer, fs) ==
    Append(fs, Entry(writer.name, writer.address, writer.length,
                     UploadBytes(writer.content)))

Verified(res, fs, st) == [res |-> res, files |-> fs, storage |-> st]

\* verify_hash after the commit: the file is read by name and hashed.
verify_committed(file, fs, st) ==
    LET index == read_file(fs, st, file.name)
    IN  IF index = 0 THEN Verified("panic", fs, st)
        ELSE IF ~upgrade(fs[index], st) THEN Verified("panic", fs, st)
        ELSE IF blake3_hash(Bytes(st, fs[index].address, fs[index].length)) # file.hash
             THEN Verified("HashMismatch", fs, st)
        ELSE Verified("Ok", fs, st)

\* IncompleteFile::verify_hash
verify_hash(file, fs, st, flash) ==
    IF ~is_complete(file) THEN Verified("NotComplete", fs, st)
    ELSE IF flash = "commit" THEN Verified("storage panic", fs, st)
    ELSE verify_committed(file, commit_files(file.incomplete_file, fs),
                          commit_storage(file.incomplete_file, st))

Written(res, svc, fs, st) == [res |-> res, service |-> svc, files |-> fs, storage |-> st]

\* data_write once the upload is complete: the session is taken and the
\* file is verified.
data_complete(svc, verified) ==
    Written(verified.res, [svc EXCEPT !.currently_receiving = None],
            verified.files, verified.storage)

\* data_write after receive_chunk.
data_received(svc, fs, st, received, flash) ==
    IF received.res # "Ok" THEN Written(received.res, svc, fs, st)
    ELSE IF ~is_complete(received.value)
         THEN Written("Ok", [svc EXCEPT !.currently_receiving = received.value], fs, st)
    ELSE data_complete(svc, verify_hash(received.value, fs, st, flash))

\* FileUploadService::data_write, called on a write of [index][data] to DATA.
data_write(svc, fs, st, index, data, oc, flash) ==
    IF Len(data) < 1 THEN Written("ReceivedChunkWayTooShort", svc, fs, st)
    ELSE IF svc.currently_receiving = None THEN Written("NoUploadActive", svc, fs, st)
    ELSE data_received(svc, fs, st,
                       receive_chunk(svc.currently_receiving, data, index, oc, flash),
                       flash)

\* The on_write callbacks: an error the call returned is logged into
\* last_error; a panic returns nothing.
log_error(svc, res) ==
    IF res \in {"Ok", "panic", "storage panic"} THEN svc
    ELSE [svc EXCEPT !.last_error = [k |-> res]]

\* current_hash_characteristic on_read
current_hash(svc) ==
    IF svc.currently_receiving = None THEN ZeroHash ELSE svc.currently_receiving.hash

\* u16::to_le_bytes
to_le_bytes(x) == <<x % 256, x \div 256>>

\* Iterator::flat_map(u16::to_le_bytes)
RECURSIVE flat_map_le(_, _)
flat_map_le(indices, i) ==
    IF i > Len(indices) THEN <<>>
    ELSE to_le_bytes(indices[i]) \o flat_map_le(indices, i + 1)

\* The status lists every missing chunk.
take_all(indices, n) == indices

\* Iterator::take(n)
take(indices, n) == SubSeq(indices, 1, Min({n, Len(indices)}))

\* upload_status_characteristic on_read lists at most this many chunks.
MaxListed == 100

\* upload_status_characteristic on_read, from the missing chunks and the
\* chunk count of the session.
status_bytes(missing_chunks, count) ==
    to_le_bytes((count - Len(missing_chunks)) % U16)
        \o flat_map_le(take(missing_chunks, MaxListed), 1)

\* upload_status_characteristic on_read
upload_status(svc) ==
    IF svc.currently_receiving = None THEN status_bytes(<<>>, 0)
    ELSE status_bytes(get_missing_chunks(svc.currently_receiving),
                      IncompleteFile_chunk_count(svc.currently_receiving))

\* last_error_characteristic on_read
last_error_read(svc) == IF svc.last_error = None THEN <<>> ELSE <<svc.last_error.k>>

\* ----------------------------------------------------------------- WasmHost
\* WasmHostConfiguration::default
reset_fuel == 999999

\* WasmHost::new with its guest: the guest runs with reset_fuel, no event
\* is queued.  delivered lists the events the guest's on_event got, sent
\* counts the events senders queued, entry is the fuel at the call of
\* yield_now, handled and consumed are the events delivered and the fuel
\* their handlers used in this yield_now, changed is the number of the
\* ProgramChanged event that yield_now took from the queue, queued lists
\* every event in the order the senders queued them, installed is the fuel
\* the last call of on_event started with.
WasmHost_new ==
    [pc |-> "run", fuel |-> reset_fuel, host_events |-> <<>>, delivered |-> <<>>,
     result |-> "None", sent |-> 0, entry |-> reset_fuel, handled |-> 0,
     consumed |-> 0, changed |-> 0, queued |-> <<>>, installed |-> reset_fuel]

\* caller.on_event(advertisement): the guest's handler runs on the fuel
\* installed for it; it traps when it needs more.
on_event(h, event, handler_fuel) ==
    IF handler_fuel > h.fuel
    THEN [h EXCEPT !.fuel = 0, !.pc = "aborted", !.result = "Err(out of fuel)",
                   !.delivered = Append(@, event), !.installed = h.fuel]
    ELSE [h EXCEPT !.fuel = @ - handler_fuel, !.delivered = Append(@, event),
                   !.handled = @ + 1, !.consumed = @ + handler_fuel,
                   !.installed = h.fuel]

\* A yield_now that lets the handler run on the fuel the guest has left.
ble_event_shared(h, event, handler_fuel) == on_event(h, event, handler_fuel)

\* yield_now, HostEvent::BleEvent: the handler gets reset_fuel, and the
\* fuel of before is restored when it returned.
ble_event(h, event, handler_fuel) ==
    LET fuel_before == h.fuel
        handled == on_event([h EXCEPT !.fuel = reset_fuel], event, handler_fuel)
    IN  IF handled.pc = "aborted" THEN handled
        ELSE [handled EXCEPT !.fuel = fuel_before]

\* A ProgramChanged that yield_now passes over.
program_changed_ignored(h, event) == h

\* yield_now, HostEvent::ProgramChanged: the call returns the error.
program_changed(h, event) ==
    [h EXCEPT !.pc = "aborted", !.result = "Err(Terminated as requested)"]

\* A receiver that takes the event queued last.
try_recv_last(queue) ==
    [event |-> queue[Len(queue)], rest |-> SubSeq(queue, 1, Len(queue) - 1)]

\* Receiver::try_recv on a queue that is not empty.
try_recv(queue) == [event |-> Head(queue), rest |-> Tail(queue)]

\* yield_now: one event taken from host_events.
yield_event(h, handler_fuel) ==
    LET event == try_recv(h.host_events).event
        taken == [h EXCEPT !.host_events = try_recv(h.host_events).rest]
    IN  IF event.k = "BleEvent" THEN ble_event(taken, event, handler_fuel)
        ELSE program_changed([taken EXCEPT !.changed = event.id], event)

\* yield_now returns with the fuel the guest has left.
yield_return_kept(h) == [h EXCEPT !.pc = "run", !.result = "Ok"]

\* yield_now after the wait: the fuel is set to reset_fuel.
yield_return(h) == [h EXCEPT !.pc = "run", !.fuel = reset_fuel, !.result = "Ok"]

\* ----------------------------------------------------- CatManagementService
\* get_device_name, three names of NAMES joined: ASCII letters and dashes.
DeviceName == [i \in 1 .. 12 |-> "a"]

\* CatManagementService::new: no program hash, the device's name, an empty
\* channel to the wasm-runner thread, which idles.  runner is the state of
\* that thread, ble the state of the thread of the BLE callbacks, started
\* lists the hashes of the programs the runner started.
CatManagementService_new ==
    [program_hash |-> None, name |-> DeviceName, wasm_runner |-> <<>>,
     runner |-> "idle", ble |-> "ok", started |-> <<>>]

\* program_hash_characteristic on_write.  A payload that is not 32 bytes
\* long is dropped; else the hash is stored, the file is looked up and
\* opened, and its Reader is sent to the wasm-runner thread.  The expect
\* and unwrap calls panic when there is no such file, when it cannot be
\* opened, and when the runner's end of the channel is gone.
program_hash_write(m, fs, st, data) ==
    IF data.k # "hash" THEN [management |-> m, files |-> fs]
    ELSE IF \/ read_file_by_hash(fs, st, data.hash) = 0
            \/ ~upgrade(fs[read_file_by_hash(fs, st, data.hash)], st)
            \/ m.runner \in {"panicked", "setup panicked"}
         THEN [management |-> [m EXCEPT !.program_hash = data.hash, !.ble = "panicked"],
               files |-> fs]
    ELSE [management |->
              [m EXCEPT !.program_hash = data.hash,
                        !.wasm_runner = Append(@, fs[read_file_by_hash(fs, st, data.hash)])],
          files |-> [fs EXCEPT ![read_file_by_hash(fs, st, data.hash)].readers = @ + 1]]

\* Instance::run as the guest ended: Ok when its run returned, Err when it
\* trapped or a host call returned an error.
instance_run(h) == IF h.pc = "returned" THEN "Ok" ELSE "Err"

\* wasm_runner: instance.run().unwrap() and the next turn of the loop.
run_unwrapped(m, result) ==
    IF result = "Ok" THEN [m EXCEPT !.runner = "idle"]
    ELSE [m EXCEPT !.runner = "panicked"]

\* A byte of a name: "a" is an ASCII byte, "L2", "L3" and "L4" lead a
\* character of that many bytes, "c" continues one, "x" is no byte of
\* UTF-8.
Width(byte) ==
    IF byte = "a" THEN 1 ELSE IF byte = "L2" THEN 2 ELSE IF byte = "L3" THEN 3
    ELSE IF byte = "L4" THEN 4 ELSE 0

\* String::from_utf8 accepts the bytes.
RECURSIVE from_utf8(_)
from_utf8(bytes) ==
    IF bytes = <<>> THEN TRUE
    ELSE /\ Width(Head(bytes)) > 0
         /\ Len(bytes) >= Width(Head(bytes))
         /\ \A i \in 2 .. Width(Head(bytes)) : bytes[i] = "c"
         /\ from_utf8(SubSeq(bytes, Width(Head(bytes)) + 1, Len(bytes)))

\* name_characteristic on_write: payloads of at most 3 bytes, of more
\* than 32 bytes and payloads that are no UTF-8 are dropped.
name_write(m, data) ==
    IF Len(data) <= 3 THEN m
    ELSE IF Len(data) > 32 THEN m
    ELSE IF ~from_utf8(data) THEN m
    ELSE [m EXCEPT !.name = data]

\* str::is_char_boundary and str::floor_char_boundary.
is_char_boundary(name, index) ==
    \/ index = 0
    \/ index = Len(name)
    \/ index < Len(name) /\ name[index + 1] # "c"
floor_char_boundary(name, index) ==
    IF index >= Len(name) THEN Len(name)
    ELSE CHOOSE i \in 0 .. index :
            /\ is_char_boundary(name, i)
            /\ \A j \in i + 1 .. index : ~is_char_boundary(name, j)

\* String::split_off(at) truncates the string to its first at bytes and
\* returns the bytes behind them.
split_off(name, at) == SubSeq(name, at + 1, Len(name))

\* A get_name that returns the bytes before the boundary.
get_name_truncated(name) == SubSeq(name, 1, floor_char_boundary(name, 16))

\* WasmHost::get_name on the device name the configuration holds.
get_name(name) == split_off(name, floor_char_boundary(name, 16))

\* ------------------------------------------------------------------ locks
\* The locks in the order the design prescribes; host_events is the lock
\* around the receiver of the guest's events.
LockOrder == <<"ManagementService", "UploadService", "Filesystem", "Storage">>
Rank(lock) == CHOOSE i \in 1 .. Len(LockOrder) : LockOrder[i] = lock

\* Mutex::lock is an acquisition in mode "write"; RwLock::read and
\* RwLock::write are acquisitions in mode "read" and "write".  A guard is
\* released when it is dropped.
Acquire(lock, mode) == [op |-> "acquire", lock |-> lock, mode |-> mode]
Release(lock) == [op |-> "release", lock |-> lock, mode |-> "none"]

\* A program_hash on_write that locks the upload service first.
program_hash_reversed ==
    <<Acquire("UploadService", "write"), Acquire("ManagementService", "write"),
      Acquire("Filesystem", "read"), Release("Filesystem"),
      Release("ManagementService"), Release("UploadService")>>

\* program_hash on_write: the service, its file_upload_service, and in
\* get_file the filesystem for reading; the guards are dropped in the
\* reverse order.
program_hash_on_write ==
    <<Acquire("ManagementService", "write"), Acquire("UploadService", "write"),
      Acquire("Filesystem", "read"), Release("Filesystem"),
      Release("UploadService"), Release("ManagementService")>>

\* upload_request on_write: the service, and in start_upload the
\* filesystem for writing around get_file_writer, which writes the
\* metadata to the storage.
upload_request_on_write ==
    <<Acquire("UploadService", "write"), Acquire("Filesystem", "write"),
      Acquire("Storage", "write"), Release("Storage"),
      Release("Filesystem"), Release("UploadService")>>

\* data on_write of a chunk that leaves chunks missing: the service, and
\* the storage while the writer writes.
data_on_write ==
    <<Acquire("UploadService", "write"), Acquire("Storage", "write"),
      Release("Storage"), Release("UploadService")>>

\* data on_write of the last chunk: after the write, into_file runs with
\* the filesystem locked for reading and commits to the storage.
data_on_write_final ==
    <<Acquire("UploadService", "write"), Acquire("Storage", "write"),
      Release("Storage"), Acquire("Filesystem", "read"),
      Acquire("Storage", "write"), Release("Storage"),
      Release("Filesystem"), Release("UploadService")>>

\* The wasm-runner thread in yield_now: the lock of host_events around
\* try_recv.
yield_now_try_recv == <<Acquire("host_events", "write"), Release("host_events")>>

\* The wasm-runner thread drops the Reader of the program that ran: the
\* storage is written when the file was marked for deletion.
drop_reader == <<Acquire("Storage", "write"), Release("Storage")>>

Callbacks ==
    [program_hash |-> program_hash_on_write, upload_request |-> upload_request_on_write,
     data |-> data_on_write, data_final |-> data_on_write_final,
     yield_now |-> yield_now_try_recv, drop_reader |-> drop_reader]

\* The threads: BLE callbacks run on the BLE host threads, guests on the
\* wasm-runner thread.
BleThreads == {"ble-1", "ble-2"}
Threads == BleThreads \cup {"wasm-runner"}
TasksOf(t) ==
    IF t \in BleThreads THEN {"program_hash", "upload_request", "data", "data_final"}
    ELSE {"yield_now", "drop_reader"}
Threads_new == [t \in Threads |-> [task |-> "idle", pc |-> 0]]

\* The guards a thread holds after the first n steps of a callback.
HeldAfter(steps, n) ==
    {[lock |-> steps[i].lock, mode |-> steps[i].mode] :
        i \in {i \in 1 .. n :
                  /\ steps[i].op = "acquire"
                  /\ \A j \in i + 1 .. n : ~(steps[j].op = "release"
                                              /\ steps[j].lock = steps[i].lock)}}
Held(th, t) ==
    IF th[t].task = "idle" THEN {} ELSE HeldAfter(Callbacks[th[t].task], th[t].pc)

\* The step a thread takes next.
Busy(th, t) == th[t].task # "idle"
NextStep(th, t) == Callbacks[th[t].task][th[t].pc + 1]

\* The threads whose guards keep t from its next acquisition: a guard on
\* the same lock unless both are for reading.  A thread blocks itself when
\* it holds the lock already.
Blockers(th, t) ==
    {u \in Threads :
        \E held \in Held(th, u) :
           /\ held.lock = NextStep(th, t).lock
           /\ ~(held.mode = "read" /\ NextStep(th, t).mode = "read")}
Waiting(th, t) ==
    /\ Busy(th, t)
    /\ NextStep(th, t).op = "acquire"
    /\ Blockers(th, t) # {}

\* The thread takes its next step and leaves the callback after the last.
advance(th, t) ==
    IF th[t].pc + 1 = Len(Callbacks[th[t].task])
    THEN [th EXCEPT ![t] = [task |-> "idle", pc |-> 0]]
    ELSE [th EXCEPT ![t].pc = @ + 1]

\* ---------------------------------------------------------- UpdateTarget
\* The characteristics of the device as rudelctl wrote them last, and the
\* upload_file calls that have not returned, the innermost last.
UpdateTarget_new ==
    [mtu |-> 0, calls |-> <<>>, returned |-> <<>>,
     checksums |-> <<>>, length |-> 0, chunk_length |-> 0, hash |-> <<>>,
     data |-> <<>>, flushed |-> 0]

\* let chunk_size: u16 = (mtu as u16) - 28 - 2
client_chunk_size(mtu) == mtu - 28 - 2

\* data.chunks(chunk_size)
chunks(data, chunk_size) ==
    [i \in 1 .. CeilDiv(Len(data), chunk_size) |->
        SubSeq(data, (i - 1) * chunk_size + 1, Min({Len(data), i * chunk_size}))]

\* The checksums of upload_file: one CRC per chunk.
client_checksums(data, chunk_size) ==
    [i \in 1 .. CeilDiv(Len(data), chunk_size) |-> checksum(chunks(data, chunk_size)[i])]

\* A chunk as it is sent: the index as u16, little endian, then the data.
new_chunk(index, data) == <<index % 256, (index \div 256) % 256>> \o data

\* The checksums fit into the checksums characteristic.
fits_inline(checksums_data) == Len(checksums_data) < 32

\* A call of upload_file and the statement it is at.
Call(data, pc) == [data |-> data, pc |-> pc, sent |-> 0]

\* The innermost upload_file call.
Innermost(t) == t.calls[Len(t.calls)]
At(t, pc) == Len(t.calls) > 0 /\ Innermost(t).pc = pc
Goto(t, pc) == [t EXCEPT !.calls[Len(t.calls)].pc = pc]

\* ------------------------------------------------ the first_block slot
\* The slot "first_block" of the storage's named metadata: absent, or the
\* bytes stored under the key.
Absent == [present |-> FALSE, bytes |-> <<>>]
Slot(bytes) == [present |-> TRUE, bytes |-> bytes]

\* u16::from_le_bytes
from_le_bytes(bytes) == bytes[1] + 256 * bytes[2]

\* Filesystem::get_first_block: read_metadata, try_into().unwrap() to two
\* bytes, from_le_bytes.
get_first_block(slot) ==
    IF ~slot.present THEN Err("ReadMetadataError")
    ELSE IF Len(slot.bytes) # 2 THEN Err("panic")
    ELSE Ok(from_le_bytes(slot.bytes))

\* Filesystem::set_first_block: write_metadata of the two bytes.
set_first_block(slot, value, fault) ==
    IF fault THEN Err("WriteMetadataError") ELSE Ok(Slot(to_le_bytes(value)))

\* The scan of Filesystem::new from the block the slot names.
RECURSIVE scan_from(_, _, _, _)
scan_from(st, first, block_number, found) ==
    IF block_number >= BLOCKS THEN found
    ELSE IF ~Opens(st, ((block_number + first) % BLOCKS) * BLOCK_SIZE)
         THEN scan_from(st, first, block_number + 1, found)
    ELSE scan_from(st, first,
                   block_number
                      + ((HeadAt(st, ((block_number + first) % BLOCKS) * BLOCK_SIZE).length
                          + 64) \div BLOCK_SIZE) + 1,
                   Append(found,
                          Entry(HeadAt(st, ((block_number + first) % BLOCKS) * BLOCK_SIZE).name,
                                ((block_number + first) % BLOCKS) * BLOCK_SIZE,
                                HeadAt(st, ((block_number + first) % BLOCKS) * BLOCK_SIZE).length,
                                Bytes(st, ((block_number + first) % BLOCKS) * BLOCK_SIZE,
                                      HeadAt(st, ((block_number + first) % BLOCKS)
                                                    * BLOCK_SIZE).length))))

Mounted(res, fs, slot) == [res |-> res, files |-> fs, nvs |-> slot]

\* Filesystem::new once get_first_block has returned: unwrap_or_else writes
\* 0 to the slot and unwraps the result.
mount_from(st, slot, first, written) ==
    IF first.res = "panic" THEN Mounted("panic", <<>>, slot)
    ELSE IF first.res = "Ok" THEN Mounted("Ok", scan_from(st, first.value, 0, <<>>), slot)
    ELSE IF written.res # "Ok" THEN Mounted("panic", <<>>, slot)
    ELSE Mounted("Ok", scan_from(st, 0, 0, <<>>), written.value)

\* Filesystem::new
Filesystem_mount(st, slot, fault) ==
    mount_from(st, slot, get_first_block(slot), set_first_block(slot, 0, fault))

\* ---------------------------------------------------------------- actions
Op(op, name, res, addr, len, deferred) ==
    [op |-> op, name |-> name, res |-> res, addr |-> addr, len |-> len,
     deferred |-> deferred]

\* A panic ends the process: nothing runs until the next mount.
Alive == lastOp.res \notin {"panic", "storage panic"}

\* Blocks no catalog file occupies.
FreeBlocks(fs) ==
    Blocks \ UNION {BlockRange(fs[i].address, fs[i].length) : i \in 1 .. Len(fs)}

\* A request of len bytes cannot be placed without the blocks of a deleted
\* file that still has a Reader.
NeedsDeferred(fs, len) ==
    /\ \E i \in 1 .. Len(fs) : ~fs[i].content /\ fs[i].readers > 0
    /\ length_in_blocks(len) > Cardinality(FreeBlocks(fs))

Init ==
    /\ storage = [b \in Blocks |-> ErasedBlock]
    /\ files = Filesystem_new(storage)
    /\ writes = 0
    /\ lastOp = Op("mount", "", "Ok", 0, 0, FALSE)
    /\ service = FileUploadService_new
    /\ host = WasmHost_new
    /\ management = CatManagementService_new
    /\ threads = Threads_new
    /\ target = UpdateTarget_new
    /\ nvs = Slot(to_le_bytes(0))

\* oc: whether the build checks integer overflow (a debug build panics where
\* a release build wraps).
WriteFile(name, c, len, oc) ==
    /\ Alive
    /\ writes < MaxWrites
    /\ writes' = writes + 1
    /\ \E out \in {write_file(files, storage, name, c, len, HashGiven(c, len), oc)} :
          /\ files' = TouchOlder(out.files, out.res = "Ok", storage, out.storage)
          /\ storage' = out.storage
          /\ lastOp' = Op("write", name, out.res, out.addr, len,
                          NeedsDeferred(cleanup_files(files), len))
                       @@ ("swept" :> Len(files) - Len(cleanup_files(files)))
    /\ UNCHANGED <<service, host, management, threads, target, nvs>>

\* Power is lost inside write_file, after the metadata was written and
\* before the content was written completely; the device boots and mounts.
WriteFilePowerLoss(name, c, len, parts, oc) ==
    /\ Alive
    /\ writes < MaxWrites
    /\ writes' = writes + 1
    /\ Len(name) <= MaxNameLen
    /\ parts < length_in_blocks(len)
    /\ \E free \in {find_free_space(cleanup_files(files), len + MetadataSize, oc)} :
          /\ free.tag = "Ok"
          /\ WriteInRange(free.addr, MetadataSize)
          /\ WriteInRange(free.addr + MetadataSize, len)
          /\ storage' = WriteContentPartly(
                            WriteHead(storage, free.addr,
                                      Hdr(name, len % U16, HashGiven(c, len))),
                            free.addr, c, len, parts)
          /\ lastOp' = Op("powerloss", name, "Ok", free.addr, len, FALSE)
    /\ files' = Filesystem_new(storage')
    /\ UNCHANGED <<service, host, management, threads, target, nvs>>

DeleteFile(name) ==
    /\ Alive
    /\ \E out \in {delete_file(files, storage, name)} :
          /\ files' = Touch(out.files, storage, out.storage)
          /\ storage' = out.storage
          /\ lastOp' = Op("delete", name, out.res, 0, 0, FALSE)
    /\ UNCHANGED <<writes, service, host, management, threads, target, nvs>>

\* read_file(name): the client keeps the Weak handle it is given.
ReadFile(name) ==
    LET index == read_file(files, storage, name)
    IN  /\ Alive
        /\ index # 0
        /\ files' = [files EXCEPT ![index].weak = TRUE, ![index].touched = FALSE]
        /\ lastOp' = Op("handle", "", "Ok", 0, 0, FALSE)
        /\ UNCHANGED <<storage, writes, service, host, management, threads, target, nvs>>

\* A client upgrades the Weak handle it holds of a catalog file.
Upgrade(index) ==
    LET file == files[index]
    IN  /\ Alive
        /\ file.weak
        /\ file.readers < MaxReaders
        /\ upgrade(file, storage)
        /\ files' = [files EXCEPT ![index].readers = @ + 1]
        /\ lastOp' = Op("handle", "", "Ok", 0, 0, FALSE)
        /\ UNCHANGED <<storage, writes, service, host, management, threads, target, nvs>>

\* A client drops a Reader; the last Reader of a deleted file takes the
\* content with it, which erases the file's blocks.
DropReader(index) ==
    LET file == files[index]
        last == file.readers = 1 /\ ~file.content
    IN  /\ Alive
        /\ file.readers > 0
        /\ storage' = IF last THEN EraseBlocks(storage, file.address, file.length)
                      ELSE storage
        /\ files' = Touch([files EXCEPT ![index].readers = @ - 1], storage, storage')
        /\ lastOp' = Op("handle", "", "Ok", 0, 0, FALSE)
        /\ UNCHANGED <<writes, service, host, management, threads, target, nvs>>

\* The device reboots: a new Filesystem is made over the same storage, and
\* every handle held in memory is gone.
Mount ==
    /\ files' = Filesystem_new(storage)
    /\ lastOp' = Op("mount", "", "Ok", 0, 0, FALSE)
    /\ UNCHANGED <<storage, writes, service, host, management, threads, target, nvs>>

\* One session of a mounted filesystem and its clients.
Next ==
    \/ \E name \in Names, c \in ContentIds, len \in Lengths, oc \in BOOLEAN :
          WriteFile(name, c, len, oc)
    \/ \E name \in Names : DeleteFile(name)
    \/ \E name \in Names : ReadFile(name)
    \/ \E index \in 1 .. Len(files) : Upgrade(index)
    \/ \E index \in 1 .. Len(files) : DropReader(index)

Spec == Init /\ [][Next]_vars

\* Sessions without delete_file.
NextWrites ==
    \/ \E name \in Names, c \in ContentIds, len \in Lengths, oc \in BOOLEAN :
          WriteFile(name, c, len, oc)
    \/ \E name \in Names : ReadFile(name)
    \/ \E index \in 1 .. Len(files) : Upgrade(index)
    \/ \E index \in 1 .. Len(files) : DropReader(index)

SpecWrites == Init /\ [][NextWrites]_vars

\* The filesystem over reboots and power losses.
NextBoot ==
    \/ \E name \in Names, c \in ContentIds, len \in Lengths, oc \in BOOLEAN :
          WriteFile(name, c, len, oc)
    \/ \E name \in Names, c \in ContentIds, len \in Lengths, oc \in BOOLEAN :
          WriteFilePowerLoss(name, c, len, 0, oc)
    \/ \E name \in Names : DeleteFile(name)
    \/ Mount

SpecBoot == Init /\ [][NextBoot]_vars

\* Writes of every length to a freshly mounted, empty storage.
EmptyMounted ==
    /\ files = <<>>
    /\ \A b \in Blocks : storage[b] = ErasedBlock

WriteFresh(name, c, len, oc) == EmptyMounted /\ WriteFile(name, c, len, oc)

NextFresh ==
    \/ \E name \in Names, c \in ContentIds, len \in Lengths \cup {Largest} \cup TooLong,
          oc \in BOOLEAN : WriteFresh(name, c, len, oc)
    \/ \E name \in Names : DeleteFile(name)
    \/ Mount

SpecFresh == Init /\ [][NextFresh]_vars

\* ---------------------------------------------------------- upload inputs
\* Bytes of one chunk but the last.
ChunkSize == 2
\* The files clients upload.
Uploads == {<<>>, <<1>>, <<1, 2, 2, 1>>, <<2, 1, 1, 2, 2>>}
\* The upload that is also requested under a hash that is not its own.
Forged == <<2, 1, 1, 2, 2>>
\* Writes to START_UPLOAD in one session of the device.
MaxUploads == 2
UploadNames == {"fw-1", "fw-2"}
FlashFaults == {"none", "write", "commit"}

\* The chunk of that index of an upload.
Chunk(bytes, index) ==
    SubSeq(bytes, index * ChunkSize + 1, Min({Len(bytes), (index + 1) * ChunkSize}))

\* The data clients write to DATA behind the index: the chunks of the
\* uploads, a full chunk of other bytes and a chunk that is too short.
ChunkData ==
    {Chunk(u, index) : u \in Uploads, index \in 0 .. 2}
    \cup {[i \in 1 .. ChunkSize |-> 1], [i \in 1 .. (ChunkSize - 1) |-> 2]}

\* The checksums field of a request: 32 bytes, one CRC per chunk, then zeros.
ChecksumsField(bytes) ==
    [i \in 1 .. InlineChecksums |->
        IF i <= CeilDiv(Len(bytes), ChunkSize) THEN checksum(Chunk(bytes, i - 1)) ELSE 0]

\* UploadRequest::try_from of a well-formed request.
UploadRequest(hash, checksums, file_size) ==
    [k |-> "UploadRequest", hash |-> hash, checksums |-> checksums,
     file_size |-> file_size, chunk_size |-> ChunkSize]

\* A hash no upload has.
WrongHash == blake3_hash(UploadBytes(<<0>>))

\* The writes to START_UPLOAD: every upload with its hash, one with a wrong
\* hash, a file of more chunks than checksums fit into the request, and
\* bytes that are no request.
Requests ==
    {UploadRequest(blake3_hash(UploadBytes(u)), ChecksumsField(u), Len(u)) : u \in Uploads}
    \cup {UploadRequest(WrongHash, ChecksumsField(Forged), Len(Forged)),
          UploadRequest(WrongHash, ChecksumsField(<<>>), (InlineChecksums + 1) * ChunkSize),
          [k |-> "Malformed"]}

\* Chunk indices clients send.
Indices == 0 .. 2

\* cancelled: the chunks the session had received that the write replaced.
UploadOp(op, res, input, cancelled) ==
    [op |-> op, res |-> res, input |-> input, cancelled |-> cancelled]

\* The chunks a session has received.
Received(file) ==
    IF file = None THEN {}
    ELSE {i \in 1 .. Len(file.received_chunks) : file.received_chunks[i]}

\* A client writes to START_UPLOAD.  The random name is the one the
\* service draws.
RequestUpload(request, random_name, oc) ==
    /\ Alive
    /\ writes < MaxUploads
    /\ writes' = writes + 1
    /\ \E out \in {request_upload(service, files, storage, request, random_name, oc)} :
          /\ service' = log_error(out.service, out.res)
          /\ lastOp' = UploadOp("request", out.res, request,
                              IF out.res = "Ok"
                              THEN Cardinality(Received(service.currently_receiving))
                              ELSE 0)
    /\ UNCHANGED <<storage, files, host, management, threads, target, nvs>>

\* A client writes [index][data] to DATA.
DataWrite(index, data, oc, flash) ==
    /\ Alive
    /\ \E out \in {data_write(service, files, storage, index, data, oc, flash)} :
          /\ service' = log_error(out.service, out.res)
          /\ files' = out.files
          /\ storage' = out.storage
          /\ lastOp' = UploadOp("data", out.res, <<index, data>>, 0)
    /\ UNCHANGED <<writes, host, management, threads, target, nvs>>

\* Uploads over the upload service.
NextUpload ==
    \/ \E request \in Requests, random_name \in UploadNames, oc \in BOOLEAN :
          RequestUpload(request, random_name, oc)
    \/ \E index \in Indices, data \in ChunkData, oc \in BOOLEAN, flash \in FlashFaults :
          DataWrite(index, data, oc, flash)

SpecUpload == Init /\ [][NextUpload]_vars

\* ------------------------------------------------------------- PROGRESS
\* Chunk counts of the sessions whose PROGRESS is read, and the chunks
\* that are received in them.
ChunkCounts == {1, 3, MaxListed, MaxListed + 1, MaxListed + 3}
ReceivedIndices == {0, 1, 2, MaxListed - 1, MaxListed, MaxListed + 2}

\* A session of that many chunks in which no chunk was received.
SessionOf(count) ==
    IncompleteFile_new(WrongHash, [i \in 1 .. count |-> 0], ChunkSize,
                       count * ChunkSize - 1,
                       Writer("fw-1", 0, count * ChunkSize - 1), "fw-1")

InitProgress ==
    /\ storage = [b \in Blocks |-> ErasedBlock]
    /\ files = <<>>
    /\ writes = 0
    /\ lastOp = UploadOp("mount", "Ok", <<>>, 0)
    /\ host = WasmHost_new
    /\ management = CatManagementService_new
    /\ threads = Threads_new
    /\ target = UpdateTarget_new
    /\ nvs = Slot(to_le_bytes(0))
    /\ service \in {FileUploadService_new}
                   \cup {[FileUploadService_new EXCEPT !.currently_receiving = SessionOf(n)] :
                            n \in ChunkCounts}

\* receive_chunk marks a chunk that is not the last one missing.
MarkReceived(index) ==
    /\ service.currently_receiving # None
    /\ index < Len(service.currently_receiving.received_chunks)
    /\ ~service.currently_receiving.received_chunks[index + 1]
    /\ Len(get_missing_chunks(service.currently_receiving)) > 1
    /\ service' = [service EXCEPT !.currently_receiving.received_chunks[index + 1] = TRUE]
    /\ lastOp' = UploadOp("data", "Ok", <<index>>, 0)
    /\ UNCHANGED <<storage, files, writes, host, management, threads, target, nvs>>

\* A client reads PROGRESS.
ReadProgress ==
    /\ lastOp' = UploadOp("progress", "Ok", upload_status(service), 0)
    /\ UNCHANGED <<storage, files, writes, service, host, management, threads, target, nvs>>

NextProgress ==
    \/ \E index \in ReceivedIndices : MarkReceived(index)
    \/ ReadProgress

SpecProgress == InitProgress /\ [][NextProgress]_vars

\* ------------------------------------------------------------- guest
\* Events senders queue in one run of a guest.
MaxEvents == 3
Advertisements == {1, 2}
\* Fuel the guest's main loop uses between two calls, fuel a handler uses.
GuestFuel == {300000, reset_fuel}
HandlerFuel == {0, 500000, reset_fuel + 1}

\* The BLE thread or the management service sends an event to the guest.
Send(kind, advertisement) ==
    /\ host.sent < MaxEvents
    /\ host' = [host EXCEPT
                   !.sent = @ + 1,
                   !.host_events = Append(@, [k |-> kind, id |-> host.sent + 1,
                                               advertisement |-> advertisement]),
                   !.queued = Append(@, [k |-> kind, id |-> host.sent + 1,
                                          advertisement |-> advertisement])]
    /\ UNCHANGED <<storage, files, writes, lastOp, service, management, threads, target, nvs>>

\* The guest runs; it traps when its fuel is used up.
GuestRun(fuel) ==
    /\ host.pc = "run"
    /\ host' = IF fuel > host.fuel
               THEN [host EXCEPT !.pc = "aborted", !.fuel = 0, !.result = "Err(out of fuel)"]
               ELSE [host EXCEPT !.fuel = @ - fuel, !.result = "None"]
    /\ UNCHANGED <<storage, files, writes, lastOp, service, management, threads, target, nvs>>

\* The guest calls yield_now.
YieldNow ==
    /\ host.pc = "run"
    /\ host' = [host EXCEPT !.pc = "yield", !.result = "None", !.entry = host.fuel,
                            !.handled = 0, !.consumed = 0]
    /\ UNCHANGED <<storage, files, writes, lastOp, service, management, threads, target, nvs>>

\* yield_now takes an event from the queue.
YieldEvent(handler_fuel) ==
    /\ host.pc = "yield"
    /\ host.host_events # <<>>
    /\ host' = yield_event(host, handler_fuel)
    /\ UNCHANGED <<storage, files, writes, lastOp, service, management, threads, target, nvs>>

\* yield_now finds the queue empty and the time over.
YieldReturn ==
    /\ host.pc = "yield"
    /\ host.host_events = <<>>
    /\ host' = yield_return(host)
    /\ UNCHANGED <<storage, files, writes, lastOp, service, management, threads, target, nvs>>

NextHost ==
    \/ \E advertisement \in Advertisements : Send("BleEvent", advertisement)
    \/ Send("ProgramChanged", 0)
    \/ \E fuel \in GuestFuel : GuestRun(fuel)
    \/ YieldNow
    \/ \E handler_fuel \in HandlerFuel : YieldEvent(handler_fuel)
    \/ YieldReturn

SpecHost == Init /\ [][NextHost]_vars

\* ------------------------------------------------------- program runner
\* Writes to program_hash in one session of the device.
MaxPrograms == 2

\* The files on the device: two WebAssembly modules and a file that is
\* none.
ProgramFile(name, addr, bytes) == [Writer(name, addr, Len(bytes)) EXCEPT !.content = bytes]
Programs ==
    <<ProgramFile("fw-1", 0, <<1>>), ProgramFile("fw-2", BLOCK_SIZE, <<2>>),
      ProgramFile("fw-3", 2 * BLOCK_SIZE, <<1, 2>>)>>
Modules == {"fw-1", "fw-2"}

RECURSIVE stored(_, _)
stored(n, st) == IF n = 0 THEN st ELSE commit_storage(Programs[n], stored(n - 1, st))
RECURSIVE catalogued(_)
catalogued(n) == IF n = 0 THEN <<>> ELSE commit_files(Programs[n], catalogued(n - 1))

\* The payloads written to program_hash: the hash of every file, a hash
\* no file has, and bytes that are no hash.
HashPayloads ==
    {[k |-> "hash", hash |-> blake3_hash(UploadBytes(Programs[n].content))] :
        n \in 1 .. Len(Programs)}
    \cup {[k |-> "hash", hash |-> WrongHash], [k |-> "short", hash |-> WrongHash]}

\* The device after boot with the files stored: no guest runs.
InitRunner ==
    /\ storage = stored(Len(Programs), [b \in Blocks |-> ErasedBlock])
    /\ files = catalogued(Len(Programs))
    /\ writes = 0
    /\ lastOp = UploadOp("mount", "Ok", <<>>, 0)
    /\ service = FileUploadService_new
    /\ host = [WasmHost_new EXCEPT !.pc = "idle"]
    /\ management = CatManagementService_new
    /\ threads = Threads_new
    /\ target = UpdateTarget_new
    /\ nvs = Slot(to_le_bytes(0))

\* A client writes to program_hash.
ProgramHashWrite(data) ==
    /\ management.ble = "ok"
    /\ writes < MaxPrograms
    /\ writes' = writes + 1
    /\ \E out \in {program_hash_write(management, files, storage, data)} :
          /\ management' = out.management
          /\ files' = out.files
    /\ lastOp' = UploadOp("program_hash", "Ok", data, 0)
    /\ UNCHANGED <<storage, service, host, threads, target, nvs>>

\* wasm_runner takes a file from the channel, sets up the instance with a
\* clone of the host and calls run: the guest starts.  The unwrap of setup
\* panics for a file that is no module.
RunnerStart ==
    /\ management.runner = "idle"
    /\ management.wasm_runner # <<>>
    /\ IF Head(management.wasm_runner).name \in Modules
       THEN /\ management' = [management EXCEPT
                                 !.wasm_runner = Tail(@), !.runner = "running",
                                 !.started = Append(@, Head(management.wasm_runner).name)]
            /\ host' = [host EXCEPT !.pc = "run", !.fuel = reset_fuel, !.result = "None"]
       ELSE /\ management' = [management EXCEPT !.wasm_runner = Tail(@),
                                                !.runner = "setup panicked"]
            /\ UNCHANGED host
    /\ UNCHANGED <<storage, files, writes, lastOp, service, threads, target, nvs>>

\* The guest's run returns.
GuestReturn ==
    /\ host.pc = "run"
    /\ host' = [host EXCEPT !.pc = "returned", !.result = "None"]
    /\ UNCHANGED <<storage, files, writes, lastOp, service, management, threads, target, nvs>>

\* wasm_runner gets the result of run.
RunnerFinish ==
    /\ management.runner = "running"
    /\ host.pc \in {"returned", "aborted"}
    /\ management' = run_unwrapped(management, instance_run(host))
    /\ host' = [host EXCEPT !.pc = "idle"]
    /\ UNCHANGED <<storage, files, writes, lastOp, service, threads, target, nvs>>

NextRunner ==
    \/ \E data \in HashPayloads : ProgramHashWrite(data)
    \/ RunnerStart
    \/ GuestReturn
    \/ RunnerFinish
    \/ Send("BleEvent", 1)
    \/ \E fuel \in GuestFuel : GuestRun(fuel)
    \/ YieldNow
    \/ \E handler_fuel \in HandlerFuel : YieldEvent(handler_fuel)
    \/ YieldReturn

SpecRunner == InitRunner /\ [][NextRunner]_vars

\* The threads are scheduled: the wasm-runner thread takes its next step,
\* the guest executes, and a guest that called yield_now gets through it.
\* Whether the guest yields or returns is the guest's choice.
SpecRunnerFair ==
    /\ SpecRunner
    /\ WF_vars(GuestReturn \/ YieldNow \/ \E fuel \in GuestFuel : GuestRun(fuel))
    /\ WF_vars(RunnerStart)
    /\ WF_vars(RunnerFinish)
    /\ WF_vars(\E handler_fuel \in HandlerFuel : YieldEvent(handler_fuel))
    /\ WF_vars(YieldReturn)

\* ------------------------------------------------------------------
\* The callbacks and the runner thread, lock by lock.

\* A client's write reaches a BLE thread, or the runner thread gets to
\* yield_now or to the end of a program.
Begin(t, task) ==
    /\ ~Busy(threads, t)
    /\ threads' = [threads EXCEPT ![t] = [task |-> task, pc |-> 0]]
    /\ UNCHANGED <<storage, files, writes, lastOp, service, host, management, target, nvs>>

\* A thread gets the lock it asks for, or drops a guard.
LockStep(t) ==
    /\ Busy(threads, t)
    /\ ~Waiting(threads, t)
    /\ threads' = advance(threads, t)
    /\ UNCHANGED <<storage, files, writes, lastOp, service, host, management, target, nvs>>

NextLocks ==
    \/ \E t \in Threads : \E task \in TasksOf(t) : Begin(t, task)
    \/ \E t \in Threads : LockStep(t)

SpecLocks == Init /\ [][NextLocks]_vars

\* ------------------------------------------------------------------
\* One metadata block on flash: created, committed, marked, deleted and
\* erased.  storage is the metadata as the flash holds it.

MetadataLengths == 0 .. 15
HashValues == {0, 5, 10, ErasedHash}

InitMetadata ==
    /\ storage = ErasedMetadata
    /\ files = <<>>
    /\ writes = 0
    /\ lastOp = UploadOp("erase", "Ok", ErasedMetadata, 0)
    /\ service = FileUploadService_new
    /\ host = WasmHost_new
    /\ management = CatManagementService_new
    /\ threads = Threads_new
    /\ target = UpdateTarget_new
    /\ nvs = Slot(to_le_bytes(0))

\* What a write asked for is on flash afterwards.
Stored(wanted, on_flash) == IF wanted = on_flash THEN "Ok" ELSE "StorageError"

\* A Writer is created on an erased block.
CreateMetadata(length) ==
    /\ storage = ErasedMetadata
    /\ storage' = new_to_storage(storage, length)
    /\ lastOp' = UploadOp("new", "Ok", FileMetadata_new(length), 0)
    /\ UNCHANGED <<files, writes, service, host, management, threads, target, nvs>>

\* A flag of a file's metadata is set: the metadata with the flag is
\* written, or the flag alone.
SetFlag(flag, alone) ==
    /\ valid_marker_bits(storage)
    /\ ~contains(storage.flags, flag)
    /\ \E flags \in {IF alone THEN flag ELSE storage.flags + flag} :
          /\ storage' = set_flag_in_storage(storage, flags)
          /\ lastOp' = UploadOp("set_flag",
                                Stored(flags, set_flag_in_storage(storage, flags).flags),
                                [storage EXCEPT !.flags = flags], 0)
    /\ UNCHANGED <<files, writes, service, host, management, threads, target, nvs>>

\* commit writes the hash.
WriteHash(hash) ==
    /\ valid_marker_bits(storage)
    /\ storage' = write_hash(storage, hash)
    /\ lastOp' = UploadOp("hash", Stored(hash, write_hash(storage, hash).hash),
                          [storage EXCEPT !.hash = hash], 0)
    /\ UNCHANGED <<files, writes, service, host, management, threads, target, nvs>>

\* Storage::erase of the block.
EraseMetadata ==
    /\ storage # ErasedMetadata
    /\ storage' = ErasedMetadata
    /\ lastOp' = UploadOp("erase", "Ok", ErasedMetadata, 0)
    /\ UNCHANGED <<files, writes, service, host, management, threads, target, nvs>>

NextMetadata ==
    \/ \E length \in MetadataLengths : CreateMetadata(length)
    \/ \E flag \in {Ready, MarkedForDeletion, Deleted} : \E alone \in BOOLEAN :
          SetFlag(flag, alone)
    \/ \E hash \in HashValues : WriteHash(hash)
    \/ EraseMetadata

SpecMetadata == InitMetadata /\ [][NextMetadata]_vars

\* ------------------------------------------------------------------
\* The device name: clients write the name characteristic, guests call
\* get_name.

Pad(n) == [i \in 1 .. n |-> "a"]
NameLengths == {0, 3, 4, 15, 16, 17, 18, 32, 33}

\* Payloads of the name write: ASCII, with a character of several bytes
\* at the front or across byte 16, and bytes that are no UTF-8.
NamePayloads ==
    {Pad(n) : n \in NameLengths}
    \cup {<<"L2", "c">> \o Pad(n - 2) : n \in NameLengths \ {0}}
    \cup {Pad(n - 1) \o <<"c">> : n \in NameLengths \ {0}}
    \cup {Pad(n - 2) \o <<"L3", "c">> : n \in NameLengths \ {0}}
    \cup {Pad(15) \o <<"L2", "c">>, Pad(14) \o <<"L3", "c", "c">> \o Pad(1),
          Pad(13) \o <<"L4", "c", "c", "c">>, Pad(3) \o <<"x">>}

\* The names the configuration may hold: any string.
DeviceNames == {name \in NamePayloads : from_utf8(name)}

NameWrite(data) ==
    /\ management' = name_write(management, data)
    /\ lastOp' = UploadOp("name", "Ok", data, 0)
    /\ UNCHANGED <<storage, files, writes, service, host, threads, target, nvs>>

GetName(name) ==
    /\ lastOp' = UploadOp("get_name", get_name(name), name, 0)
    /\ UNCHANGED <<storage, files, writes, service, host, management, threads, target, nvs>>

NextName ==
    \/ \E data \in NamePayloads : NameWrite(data)
    \/ \E name \in DeviceNames : GetName(name)

SpecName == Init /\ [][NextName]_vars

\* ------------------------------------------------------------------
\* rudelctl uploads a file: upload_file statement by statement.

\* The longest file uploaded and the deepest nesting of upload_file calls
\* that is followed.
MaxFileLen == 66
MaxNested == 4
\* The MTUs of the connection: chunk sizes of 1, 2 and 3 bytes.
Mtus == {31, 32, 33}
ClientFiles == {[i \in 1 .. n |-> i % 3] : n \in {1, 31, 32, 33, MaxFileLen}}

InitClient == Init

\* rudelctl calls upload_file for a file.
UploadFile(data, mtu) ==
    /\ target.calls = <<>>
    /\ target.returned = <<>>
    /\ target' = [target EXCEPT !.mtu = mtu, !.calls = <<Call(data, "checksums")>>]
    /\ UNCHANGED <<storage, files, writes, lastOp, service, host, management, threads, nvs>>

\* The checksums are fewer than 32: they are written as they are.
WriteChecksums ==
    /\ At(target, "checksums")
    /\ fits_inline(client_checksums(Innermost(target).data, client_chunk_size(target.mtu)))
    /\ target' = [Goto(target, "length") EXCEPT
                     !.checksums = client_checksums(Innermost(target).data,
                                                    client_chunk_size(target.mtu))]
    /\ UNCHANGED <<storage, files, writes, lastOp, service, host, management, threads, nvs>>

\* Otherwise upload_file is called for the checksums.
UploadChecksums ==
    /\ At(target, "checksums")
    /\ ~fits_inline(client_checksums(Innermost(target).data, client_chunk_size(target.mtu)))
    /\ Len(target.calls) < MaxNested
    /\ target' = [Goto(target, "checksums_file_hash") EXCEPT
                     !.calls = Append(@, Call(client_checksums(Innermost(target).data,
                                                               client_chunk_size(target.mtu)),
                                              "checksums"))]
    /\ UNCHANGED <<storage, files, writes, lastOp, service, host, management, threads, nvs>>

\* The nested call has returned: the hash of the checksums file is written.
WriteChecksumsFileHash ==
    /\ At(target, "checksums_file_hash")
    /\ target' = [Goto(target, "length") EXCEPT !.checksums = target.returned,
                                                 !.returned = <<>>]
    /\ UNCHANGED <<storage, files, writes, lastOp, service, host, management, threads, nvs>>

WriteFileLength ==
    /\ At(target, "length")
    /\ target' = [Goto(target, "chunk_length") EXCEPT !.length = Len(Innermost(target).data)]
    /\ UNCHANGED <<storage, files, writes, lastOp, service, host, management, threads, nvs>>

WriteChunkLength ==
    /\ At(target, "chunk_length")
    /\ target' = [Goto(target, "hash") EXCEPT !.chunk_length = client_chunk_size(target.mtu)]
    /\ UNCHANGED <<storage, files, writes, lastOp, service, host, management, threads, nvs>>

WriteFileHash ==
    /\ At(target, "hash")
    /\ target' = [Goto(target, "data") EXCEPT !.hash = blake3_hash(Innermost(target).data)]
    /\ UNCHANGED <<storage, files, writes, lastOp, service, host, management, threads, nvs>>

\* write_io.send of the next chunk.
SendChunk ==
    /\ At(target, "data")
    /\ Innermost(target).sent < CeilDiv(Len(Innermost(target).data), client_chunk_size(target.mtu))
    /\ target' = [target EXCEPT
                     !.calls[Len(target.calls)].sent = @ + 1,
                     !.data = new_chunk(Innermost(target).sent,
                                        chunks(Innermost(target).data,
                                               client_chunk_size(target.mtu))
                                           [Innermost(target).sent + 1])]
    /\ UNCHANGED <<storage, files, writes, lastOp, service, host, management, threads, nvs>>

\* flush, shutdown, the reliable write to the length characteristic, and
\* return Ok(hash).
FlushAndReturn ==
    /\ At(target, "data")
    /\ Innermost(target).sent = CeilDiv(Len(Innermost(target).data), client_chunk_size(target.mtu))
    /\ target' = [target EXCEPT
                     !.calls = SubSeq(@, 1, Len(@) - 1),
                     !.length = 0,
                     !.flushed = @ + 1,
                     !.returned = blake3_hash(Innermost(target).data)]
    /\ UNCHANGED <<storage, files, writes, lastOp, service, host, management, threads, nvs>>

NextClient ==
    \/ \E data \in ClientFiles, mtu \in Mtus : UploadFile(data, mtu)
    \/ WriteChecksums
    \/ UploadChecksums
    \/ WriteChecksumsFileHash
    \/ WriteFileLength
    \/ WriteChunkLength
    \/ WriteFileHash
    \/ SendChunk
    \/ FlushAndReturn

SpecClient == InitClient /\ [][NextClient]_vars

\* ------------------------------------------------------------------
\* The device boots with a first_block slot in any state.

\* The states of the slot: absent, a block number, a block number past the
\* last block, one byte, three bytes, no byte.
SlotStates ==
    {Absent, Slot(to_le_bytes(0)), Slot(to_le_bytes(1)), Slot(to_le_bytes(BLOCKS + 4)),
     Slot(<<1>>), Slot(<<1, 0, 0>>), Slot(<<>>)}

InitMount ==
    /\ storage = [b \in Blocks |-> ErasedBlock]
    /\ writes = 0
    /\ service = FileUploadService_new
    /\ host = WasmHost_new
    /\ management = CatManagementService_new
    /\ threads = Threads_new
    /\ target = UpdateTarget_new
    /\ \E slot \in SlotStates, fault \in BOOLEAN :
          \E out \in {Filesystem_mount(storage, slot, fault)} :
             /\ files = out.files
             /\ nvs = out.nvs
             /\ lastOp = Op("mount", "", out.res, 0, 0, FALSE)

\* The device restarts: Filesystem::new over the flash as it is.
Boot(fault) ==
    /\ \E out \in {Filesystem_mount(storage, nvs, fault)} :
          /\ files' = out.files
          /\ nvs' = out.nvs
          /\ lastOp' = Op("mount", "", out.res, 0, 0, FALSE)
    /\ UNCHANGED <<storage, writes, service, host, management, threads, target>>

NextMount ==
    \/ \E name \in Names, c \in ContentIds, len \in Lengths, oc \in BOOLEAN :
          WriteFile(name, c, len, oc)
    \/ \E name \in Names, c \in ContentIds, len \in Lengths, oc \in BOOLEAN :
          WriteFilePowerLoss(name, c, len, 0, oc)
    \/ \E name \in Names : DeleteFile(name)
    \/ \E fault \in BOOLEAN : Boot(fault)

SpecMount == InitMount /\ [][NextMount]_vars

\* ------------------------------------------------------------------
\* A guest whose event handler may call yield_now itself.  The calls of
\* yield_now and of the guest's handler that have not returned are kept on
\* a stack, the innermost last.

Activation(fn, event, fuel_before) ==
    [fn |-> fn, event |-> event, fuel_before |-> fuel_before]

\* The guest, in its main function or in a handler, calls yield_now.
enter_yield_now(h) ==
    [h EXCEPT !.pc = "yield", !.stack = Append(@, Activation("yield_now", 0, 0))]

\* yield_now, HostEvent::BleEvent, up to the call of on_event: the fuel is
\* remembered and set to reset_fuel, and the guest's handler is entered.
enter_on_event(h, event) ==
    [h EXCEPT !.pc = "run",
              !.fuel = reset_fuel,
              !.delivered = Append(@, event),
              !.stack = Append([@ EXCEPT ![Len(@)].fuel_before = h.fuel],
                               Activation("on_event", event.id, 0))]

\* yield_now takes an event from host_events.
dispatch(h) ==
    IF try_recv(h.host_events).event.k = "BleEvent"
    THEN enter_on_event([h EXCEPT !.host_events = try_recv(h.host_events).rest],
                        try_recv(h.host_events).event)
    ELSE [program_changed([h EXCEPT !.host_events = try_recv(h.host_events).rest,
                                    !.changed = try_recv(h.host_events).event.id],
                          try_recv(h.host_events).event)
             EXCEPT !.stack = <<>>]

\* on_event returns to yield_now, which restores the fuel; a handler that
\* used more than it had has trapped.
leave_on_event(h, handler_fuel) ==
    IF handler_fuel > h.fuel
    THEN [h EXCEPT !.pc = "aborted", !.fuel = 0, !.result = "Err(out of fuel)",
                   !.stack = <<>>]
    ELSE [h EXCEPT !.pc = "yield",
                   !.fuel = h.stack[Len(h.stack) - 1].fuel_before,
                   !.stack = SubSeq(@, 1, Len(@) - 1)]

\* yield_now returns Ok(reset_fuel) to the code that called it.
leave_yield_now(h) ==
    [h EXCEPT !.pc = "run", !.fuel = reset_fuel, !.result = "Ok",
              !.stack = SubSeq(@, 1, Len(@) - 1)]

InitNested ==
    /\ storage = [b \in Blocks |-> ErasedBlock]
    /\ files = Filesystem_new(storage)
    /\ writes = 0
    /\ lastOp = Op("mount", "", "Ok", 0, 0, FALSE)
    /\ service = FileUploadService_new
    /\ host = WasmHost_new @@ [stack |-> <<>>]
    /\ management = CatManagementService_new
    /\ threads = Threads_new
    /\ target = UpdateTarget_new
    /\ nvs = Slot(to_le_bytes(0))

CallYieldNow ==
    /\ host.pc = "run"
    /\ host' = enter_yield_now(host)
    /\ UNCHANGED <<storage, files, writes, lastOp, service, management, threads, target, nvs>>

Dispatch ==
    /\ host.pc = "yield"
    /\ host.host_events # <<>>
    /\ host' = dispatch(host)
    /\ UNCHANGED <<storage, files, writes, lastOp, service, management, threads, target, nvs>>

HandlerReturn(handler_fuel) ==
    /\ host.pc = "run"
    /\ host.stack # <<>>
    /\ host' = leave_on_event(host, handler_fuel)
    /\ UNCHANGED <<storage, files, writes, lastOp, service, management, threads, target, nvs>>

YieldNowReturn ==
    /\ host.pc = "yield"
    /\ host.host_events = <<>>
    /\ host' = leave_yield_now(host)
    /\ UNCHANGED <<storage, files, writes, lastOp, service, management, threads, target, nvs>>

NextNested ==
    \/ \E advertisement \in Advertisements : Send("BleEvent", advertisement)
    \/ Send("ProgramChanged", 0)
    \/ CallYieldNow
    \/ Dispatch
    \/ \E handler_fuel \in HandlerFuel : HandlerReturn(handler_fuel)
    \/ YieldNowReturn

SpecNested == InitNested /\ [][NextNested]_vars

\* ================================================================= claims
Occupied(fs) == UNION {BlockRange(fs[i].address, fs[i].length) : i \in 1 .. Len(fs)}

\* C1: whenever find_free_space succeeds for a request, the blocks of the
\* ring the request takes from the returned address hold no file that is
\* in the catalog.
C1_FreeSpaceIsFree ==
    \A len \in Lengths \cup {Largest}, oc \in BOOLEAN :
        LET free == find_free_space(files, len + MetadataSize, oc)
        IN  free.tag = "Ok" => BlockRange(free.addr, len) \cap Occupied(files) = {}

\* C2: right after write_file returned Ok, read_file of that name gives a
\* file that upgrades and whose content is the bytes just written, and every
\* file of another name still has the bytes written to it.
C2_WriteThenRead ==
    (lastOp.op = "write" /\ lastOp.res = "Ok") =>
        LET index == read_file(files, storage, lastOp.name)
            newest == files[Len(files)]
        IN  /\ index # 0
            /\ upgrade(files[index], storage)
            /\ Bytes(storage, files[index].address, files[index].length) = newest.written
            /\ \A i \in 1 .. Len(files) :
                  files[i].name # lastOp.name =>
                      Bytes(storage, files[i].address, files[i].length) = files[i].written

\* Every file's metadata and content on flash are as write_file left them,
\* and nothing else on flash looks like a file.
AtRest(fs, st) ==
    /\ \A i \in 1 .. Len(fs) :
          /\ valid(fs[i], st)
          /\ Bytes(st, fs[i].address, fs[i].length) = fs[i].written
    /\ \A b \in Blocks :
          st[b].head.k \in {"hdr", "corrupt"} =>
              \E i \in 1 .. Len(fs) : b \in BlockRange(fs[i].address, fs[i].length)

\* C3: a mount of a storage that holds only successfully written files
\* keeps every readable file readable, with the same bytes.
C3_MountKeepsFiles ==
    [][ (lastOp'.op = "mount" /\ AtRest(files, storage)) =>
            \A name \in Names :
                LET before == read_file(files, storage, name)
                    after == read_file(files', storage', name)
                IN  before # 0 =>
                        /\ after # 0
                        /\ Bytes(storage', files'[after].address, files'[after].length)
                             = Bytes(storage, files[before].address, files[before].length)
      ]_vars

\* C4: after power was lost inside write_file, the mount shows no file at
\* the address the interrupted write had chosen.
C4_NoFileAfterPowerLoss ==
    lastOp.op = "powerloss" =>
        \A i \in 1 .. Len(files) : files[i].address # lastOp.addr

\* C5: right after delete_file(name) returned Ok, read_file(name) is None.
C5_DeletedIsAbsent ==
    (lastOp.op = "delete" /\ lastOp.res = "Ok") =>
        read_file(files, storage, lastOp.name) = 0

\* C6: the upgrade of a Weak handle succeeds exactly when delete_file was
\* not called on its file and no block of the file was programmed or erased
\* since the handle was made.
C6_UpgradeIffLive ==
    \A i \in 1 .. Len(files) :
        files[i].weak =>
            (upgrade(files[i], storage) <=> (files[i].content /\ ~files[i].touched))

\* C7: a write_file that cannot be placed without the blocks of a deleted
\* file that still has a Reader fails.
C7_DeferredReuse ==
    (lastOp.op = "write" /\ lastOp.deferred) => lastOp.res # "Ok"

\* C8: while a file has a Reader, its bytes on flash are the bytes that were
\* written.
C8_ReaderSeesWritten ==
    \A i \in 1 .. Len(files) :
        files[i].readers > 0 =>
            Bytes(storage, files[i].address, files[i].length) = files[i].written

blake3_of(bytes) ==
    LET same == {cl \in ContentIds \X (Lengths \cup {Largest}) :
                    bytes = ContentBytes(cl[1], cl[2])}
    IN  IF same = {} THEN <<"blake3", "other">>
        ELSE LET cl == CHOOSE x \in same : TRUE IN blake3(cl[1], cl[2])

\* The hashes a client can ask for.
Hashes == {ZeroHash} \cup {blake3(c, len) : c \in ContentIds, len \in Lengths}

\* C10: the metadata of every file read_file can return carries the BLAKE3
\* of the file's content, and the file found under a hash has content with
\* that BLAKE3.
C10_HashIsBlake3 ==
    /\ \A name \in Names :
          LET index == read_file(files, storage, name)
          IN  index # 0 =>
                  HeadAt(storage, files[index].address).hash
                    = blake3_of(Bytes(storage, files[index].address, files[index].length))
    /\ \A hash \in Hashes :
          LET index == read_file_by_hash(files, storage, hash)
          IN  index # 0 =>
                  blake3_of(Bytes(storage, files[index].address, files[index].length)) = hash

\* FileMetadata::valid_marker on a 64-byte cell: the three HIGH marker bits
\* are set and the three LOW marker bits are clear.  An erased cell has every
\* bit set, the LOW markers too.
valid_marker(h) == h.k = "hdr"

\* C11: the metadata on flash of every catalog entry whose file was not
\* deleted has valid marker bits and the READY flag.
C11_LiveEntriesHaveMarkers ==
    \A i \in 1 .. Len(files) :
        files[i].content =>
            /\ valid_marker(HeadAt(storage, files[i].address))
            /\ HeadAt(storage, files[i].address).ready

\* The chunks are delivered in that order; data gives the bytes of each.
RECURSIVE deliver(_, _, _)
deliver(file, order, data) ==
    IF order = <<>> THEN file
    ELSE deliver(receive_chunk(file, data[Head(order)], Head(order), FALSE, "none").value,
                 Tail(order), data)

\* Every order of the indices of a sequence.
Orders(indices) ==
    {[i \in 1 .. Len(indices) |-> indices[p[i]]] : p \in Permutations(1 .. Len(indices))}

\* Bytes for every missing chunk that receive_chunk accepts.
ValidChunks(file) ==
    {data \in [{get_missing_chunks(file)[i] : i \in 1 .. Len(get_missing_chunks(file))}
                  -> ChunkData] :
        \A index \in DOMAIN data :
            receive_chunk(file, data[index], index, FALSE, "none").res = "Ok"}

SameContent(a, b) ==
    /\ a.incomplete_file.content = b.incomplete_file.content
    /\ a.received_chunks = b.received_chunks

\* C12: the missing chunks of an upload, each valid and delivered once,
\* leave the same content and the same received bitmap in every order of
\* delivery as in ascending order.
C12_OrderIndependent ==
    service.currently_receiving # None =>
        \A data \in ValidChunks(service.currently_receiving) :
            \A order \in Orders(get_missing_chunks(service.currently_receiving)) :
                SameContent(deliver(service.currently_receiving, order, data),
                            deliver(service.currently_receiving,
                                    get_missing_chunks(service.currently_receiving), data))

\* A later chunk was received before the first one, and valid bytes exist
\* for the chunks still missing.
C12_OutOfOrder ==
    /\ lastOp.op = "data" /\ lastOp.res = "Ok"
    /\ service.currently_receiving # None
    /\ ~service.currently_receiving.received_chunks[1]
    /\ service.currently_receiving.received_chunks[3]
    /\ Len(get_missing_chunks(service.currently_receiving)) = 2
    /\ ValidChunks(service.currently_receiving) # {}

\* FileUploadService::get_file: the file is found by its hash, it can be
\* opened and it has these bytes.
get_file_returns(fs, st, hash, bytes) ==
    /\ read_file_by_hash(fs, st, hash) # 0
    /\ upgrade(fs[read_file_by_hash(fs, st, hash)], st)
    /\ fs[read_file_by_hash(fs, st, hash)].length = Len(bytes)
    /\ Bytes(st, fs[read_file_by_hash(fs, st, hash)].address, Len(bytes)) = UploadBytes(bytes)

\* The session as the chunk of the last DATA write completes it, if the
\* chunk is valid and was the last one missing.
Completes(file, input) ==
    /\ file # None
    /\ receive_chunk(file, input[2], input[1], FALSE, "none").res = "Ok"
    /\ is_complete(receive_chunk(file, input[2], input[1], FALSE, "none").value)

Assembled(file, input) ==
    receive_chunk(file, input[2], input[1], FALSE, "none").value.incomplete_file.content

ObeysRules(file, index, data) ==
    /\ index < Len(file.checksums)
    /\ index < Len(file.checksums) - 1 => Len(data) = file.chunk_length
    /\ index = Len(file.checksums) - 1 => Len(data) = file.length % file.chunk_length
    /\ checksum(data) = file.checksums[index + 1]

\* The chunk is marked as received and its bytes are in the file at
\* index * chunk_size.
Holds(file, index, data) ==
    /\ file.received_chunks[index + 1]
    /\ \A i \in 1 .. Len(data) :
          file.incomplete_file.content[index * file.chunk_length + i] = data[i]

\* C15: a DATA write of at least one data byte to a session marks the
\* chunk and writes its bytes at index * chunk_size if the chunk obeys the
\* length rule and the checksum rule; otherwise it fails with
\* InvalidLength or WrongChecksum and leaves the session as it was.
C15_ChunkAcceptedIffValid ==
    [][(/\ lastOp'.op = "data"
        /\ lastOp'.res # "storage panic"
        /\ service.currently_receiving # None
        /\ Len(lastOp'.input[2]) >= 1)
       => IF ObeysRules(service.currently_receiving, lastOp'.input[1], lastOp'.input[2])
          THEN service'.currently_receiving # None =>
                  /\ lastOp'.res = "Ok"
                  /\ Holds(service'.currently_receiving, lastOp'.input[1], lastOp'.input[2])
          ELSE /\ lastOp'.res \in {"InvalidLength", "WrongChecksum"}
               /\ service'.currently_receiving = service.currently_receiving]_vars

\* The catalog holds a valid file at that address: read_file and get_file
\* return it for its name and its hash.
ValidAt(fs, st, addr) ==
    \E i \in 1 .. Len(fs) : fs[i].address = addr /\ valid(fs[i], st)

\* C16: after a DATA write that completed the session and failed with
\* HashMismatch, the session is gone and the file it committed is no
\* longer a valid file of the catalog.
C16_MismatchDeletesFile ==
    [][(/\ lastOp'.op = "data"
        /\ lastOp'.res = "HashMismatch"
        /\ service.currently_receiving # None)
       => (/\ service'.currently_receiving = None
           /\ ~ValidAt(files', storage', service.currently_receiving.incomplete_file.address))]_vars

\* C17: after a write to START_UPLOAD or DATA that failed, with an error
\* of the service or because a storage operation failed, LAST_ERROR reads
\* the failure and the service goes on.
C17_FailureIsLogged ==
    (lastOp.op \in {"request", "data"} /\ lastOp.res \notin {"Ok", "panic"}) =>
        /\ last_error_read(service) # <<>>
        /\ Alive

\* The values a client decodes from the bytes of PROGRESS.
u16_at(bytes, i) == bytes[i] + 256 * bytes[i + 1]
received_count(bytes) == u16_at(bytes, 1)
Listed(bytes) == [k \in 1 .. ((Len(bytes) - 2) \div 2) |-> u16_at(bytes, 2 * k + 1)]

\* The missing chunks of the session, none without a session.
MissingOf(svc) ==
    IF svc.currently_receiving = None THEN {}
    ELSE {i \in 0 .. (Len(svc.currently_receiving.received_chunks) - 1) :
             ~svc.currently_receiving.received_chunks[i + 1]}

ChunkCountOf(svc) ==
    IF svc.currently_receiving = None THEN 0
    ELSE Len(svc.currently_receiving.received_chunks)

\* C18: PROGRESS reads the number of received chunks, then the indices of
\* the missing chunks in ascending order, cut after the first 100; the
\* count and the number of missing chunks add up to the chunk count, and
\* without a session the count is 0 and no index follows.
C18_ProgressReport ==
    lastOp.op = "progress" =>
        /\ received_count(lastOp.input) = Cardinality(Received(service.currently_receiving))
        /\ received_count(lastOp.input) + Cardinality(MissingOf(service)) = ChunkCountOf(service)
        /\ Len(Listed(lastOp.input)) = Min({MaxListed, Cardinality(MissingOf(service))})
        /\ \A k \in 1 .. Len(Listed(lastOp.input)) :
              /\ Listed(lastOp.input)[k] \in MissingOf(service)
              /\ Cardinality({i \in MissingOf(service) : i < Listed(lastOp.input)[k]}) = k - 1
        /\ service.currently_receiving = None => lastOp.input = <<0, 0>>

\* PROGRESS was read from a session with received chunks and more than
\* 100 missing ones.
C18_Truncated ==
    /\ lastOp.op = "progress"
    /\ Cardinality(MissingOf(service)) > MaxListed
    /\ received_count(lastOp.input) > 1
    /\ Len(Listed(lastOp.input)) = MaxListed

\* C19: when yield_now has returned Ok, the guest's fuel is reset_fuel.
C19_YieldRefuels == host.result = "Ok" => host.fuel = reset_fuel

\* yield_now returned Ok after it was called with less fuel than
\* reset_fuel and delivered events whose handlers used fuel.
C19_RefuelledAfterEvents ==
    /\ host.result = "Ok"
    /\ host.entry < reset_fuel
    /\ host.handled > 1
    /\ host.consumed > 0

\* C20: when yield_now has taken a ProgramChanged from the queue, it has
\* returned the error, the guest is aborted, and every event the guest
\* got was queued before that ProgramChanged.
C20_AbortOnProgramChanged ==
    host.changed # 0 =>
        /\ host.pc = "aborted"
        /\ host.result = "Err(Terminated as requested)"
        /\ \A i \in 1 .. Len(host.delivered) : host.delivered[i].id < host.changed

\* The guest was aborted by a ProgramChanged after it got an event, and an
\* event queued after the ProgramChanged waits in the queue.
C20_EventsLeftBehind ==
    /\ host.changed # 0
    /\ host.delivered # <<>>
    /\ \E i \in 1 .. Len(host.host_events) : host.host_events[i].id > host.changed

\* C21: the events the guest's on_event got are BLE events, and they are
\* the first events that were queued, in the order they were queued: none
\* twice, none passed over.
C21_DeliveredInOrder ==
    /\ Len(host.delivered) <= Len(host.queued)
    /\ \A i \in 1 .. Len(host.delivered) :
          /\ host.delivered[i] = host.queued[i]
          /\ host.delivered[i].k = "BleEvent"

\* The guest got two different events in two calls of yield_now while a
\* third one waits.
C21_TwoDelivered ==
    /\ Len(host.delivered) = 2
    /\ host.delivered[1].advertisement # host.delivered[2].advertisement
    /\ host.handled = 1
    /\ host.host_events # <<>>

\* C22: the wasm-runner thread does not end with the guest: after the
\* guest's run ended, with or without an error, it idles or runs the next
\* program.
C22_RunnerKeepsRunning == management.runner # "panicked"

\* A program named name waits in the channel while a guest runs.
Pending(name) ==
    /\ management.runner = "running"
    /\ \E i \in 1 .. Len(management.wasm_runner) : management.wasm_runner[i].name = name

\* The runner started name after the guest that ran.
StartedNext(name) == \E i \in 2 .. Len(management.started) : management.started[i] = name

\* The wasm-runner thread ended in a panic.
RunnerDied == management.runner \in {"panicked", "setup panicked"}

\* C23: a write of the hash of an available program to program_hash while
\* a guest runs leads to the guest being terminated and the new program
\* being started by the runner, as long as the runner thread lives.
C23_ProgramChangeRestarts ==
    \A name \in Modules : Pending(name) ~> (StartedNext(name) \/ RunnerDied)

\* C24: a write to the name characteristic changes the device name only
\* if the payload is valid UTF-8 of 4 to 16 bytes; every other payload
\* leaves the name unchanged.
C24_NameWriteValidated ==
    [][lastOp'.op = "name" =>
          management'.name =
             IF from_utf8(lastOp'.input) /\ Len(lastOp'.input) \in 4 .. 16
             THEN lastOp'.input ELSE management.name]_vars

\* C25: get_name returns the longest prefix of the device name that is at
\* most 16 bytes long and ends on a character boundary: the whole name
\* when it has at most 16 bytes.
C25_GetNamePrefix ==
    lastOp.op = "get_name" =>
       /\ \E n \in 0 .. 16 : lastOp.res = SubSeq(lastOp.input, 1, n)
       /\ from_utf8(lastOp.res)
       /\ \A n \in Len(lastOp.res) + 1 .. 16 :
             n <= Len(lastOp.input) => ~from_utf8(SubSeq(lastOp.input, 1, n))

\* yield_now hands a BLE event to on_event in this step.
Delivers == host.pc = "yield" /\ Len(host'.delivered) = Len(host.delivered) + 1

\* C26: for every BLE event delivered during yield, on_event starts with
\* exactly reset_fuel, and when it returned the fuel is again the value
\* recorded just before the callback.
C26_HandlerFuel ==
    [][Delivers =>
          /\ host'.installed = reset_fuel
          /\ host'.pc # "aborted" => host'.fuel = host.fuel]_vars

C26_HandlerRan ==
    /\ host.pc = "yield"
    /\ host.handled = 2
    /\ host.consumed = 1000000
    /\ host.fuel = 699999

\* A thread asks for a lock of the order only while it holds none but
\* earlier ones, and takes no lock while it holds one outside the order.
Ordered(t) ==
    (Busy(threads, t) /\ NextStep(threads, t).op = "acquire") =>
       \A held \in Held(threads, t) :
          /\ held.lock # "host_events"
          /\ NextStep(threads, t).lock # "host_events"
          /\ Rank(held.lock) < Rank(NextStep(threads, t).lock)

\* Threads that wait for one another's locks for ever.
Deadlocked ==
    \E stuck \in SUBSET Threads \ {{}} :
       \A t \in stuck : Waiting(threads, t) /\ Blockers(threads, t) \subseteq stuck

\* C27: every thread takes the locks in the order ManagementService,
\* UploadService, Filesystem, Storage and never asks for an earlier lock or
\* one it holds while holding a later one; no interleaving of the BLE
\* callbacks with the runner thread deadlocks.
C27_LockOrder == (\A t \in Threads : Ordered(t)) /\ ~Deadlocked

C27_Contended ==
    /\ threads["ble-1"] = [task |-> "program_hash", pc |-> 2]
    /\ threads["ble-2"].task = "data_final"
    /\ Waiting(threads, "ble-2")
    /\ threads["wasm-runner"] = [task |-> "drop_reader", pc |-> 1]

\* Every bit set in wanted is set in stored.
ClearsOnly(on_flash, wanted) == And(on_flash, wanted) = wanted

\* C28: every change to a metadata already written (setting READY, setting
\* MARKED_FOR_DELETION, setting DELETED, writing the hash) only turns bits
\* from 1 to 0: no update needs a bit to go from 0 to 1.
C28_UpdatesClearBits ==
    [][lastOp'.op \in {"set_flag", "hash"} =>
          /\ ClearsOnly(storage.flags, lastOp'.input.flags)
          /\ ClearsOnly(storage.hash, lastOp'.input.hash)]_vars

\* The blocks at which a scan recognizes a file when it resumes behind a
\* file at the block after the file's last one.
RECURSIVE scan_resuming(_, _, _)
scan_resuming(st, block_number, found) ==
    IF block_number >= BLOCKS THEN found
    ELSE IF ~Opens(st, ((block_number + first_block) % BLOCKS) * BLOCK_SIZE)
         THEN scan_resuming(st, block_number + 1, found)
    ELSE scan_resuming(
             st,
             block_number + length_in_blocks(
                 HeadAt(st, ((block_number + first_block) % BLOCKS) * BLOCK_SIZE).length),
             Append(found, ((block_number + first_block) % BLOCKS) * BLOCK_SIZE))

\* C29: during mount the scan resumes, after a file recognized at block b,
\* at block b + ceil((length + 64) / BLOCK_SIZE), and after a block that is
\* no file at b + 1: a file in the block right behind another file is
\* found.
C29_ScanResumesBehindFile ==
    lastOp.op = "mount" =>
       [i \in 1 .. Len(files) |-> files[i].address] = scan_resuming(storage, 0, <<>>)

\* Files of the catalog that share a block.
Overlapping(fs) ==
    \E i, j \in 1 .. Len(fs) :
       i # j /\ BlockRange(fs[i].address, fs[i].length)
                   \cap BlockRange(fs[j].address, fs[j].length) # {}

\* n free blocks of the ring in a row from block b on.
FreeRun(fs, b, n) == \A j \in 0 .. n - 1 : (b + j) % BLOCKS \notin Occupied(fs)
LongestFree(fs) == Max({0} \cup {n \in 1 .. BLOCKS : \E b \in Blocks : FreeRun(fs, b, n)})

\* The result find_free_space is to give for a request of length bytes.
LongestInterval(fs, length, result) ==
    IF Overlapping(fs) THEN result.tag = "FilesystemError"
    ELSE IF LongestFree(fs) = 0 THEN result.tag = "NoFreeSpace"
    ELSE IF LongestFree(fs) * BLOCK_SIZE < length THEN result.tag = "NotEnoughSpace"
    ELSE /\ result.tag = "Ok"
         /\ result.addr % BLOCK_SIZE = 0
         /\ result.addr < SIZE
         /\ FreeRun(fs, result.addr \div BLOCK_SIZE, LongestFree(fs))
         /\ \/ LongestFree(fs) = BLOCKS
            \/ ((result.addr \div BLOCK_SIZE) + BLOCKS - 1) % BLOCKS \in Occupied(fs)

RequestLengths == {1, BLOCK_SIZE, BLOCK_SIZE + 1, SIZE, SIZE + 1}

\* C30: find_free_space returns the start of a longest free interval of
\* the ring of blocks; it fails with NotEnoughSpace exactly when that
\* interval has fewer bytes than requested, with NoFreeSpace when no block
\* is free, and with FilesystemError when a file of the catalog has no free
\* range around it.
C30_LongestFreeInterval ==
    \A length \in RequestLengths :
       LongestInterval(files, length, find_free_space(files, length, FALSE))

\* What identifies a catalog entry and its strong references.
EntryKey(file) == <<file.name, file.address, file.length, file.content, file.readers>>
CountOf(fs, key) == Cardinality({i \in 1 .. Len(fs) : EntryKey(fs[i]) = key})

\* The catalog a write_file leaves without the entry it pushed.
Survivors(fs, res) == IF res = "Ok" THEN SubSeq(fs, 1, Len(fs) - 1) ELSE fs

\* C31: the sweep at the start of write_file removes a catalog entry if and
\* only if no strong reference to it is left and it was deleted; write_file
\* never removes a file that was not deleted.
C31_SweepRemovesDeletedOnly ==
    [][lastOp'.op = "write" =>
          \A i \in 1 .. Len(files) :
             CountOf(Survivors(files', lastOp'.res), EntryKey(files[i])) =
                IF files[i].readers = 0 /\ ~files[i].content THEN 0
                ELSE CountOf(files, EntryKey(files[i]))]_vars

C31_Swept ==
    /\ lastOp.op = "write"
    /\ lastOp.swept = 1
    /\ lastOp.res = "Ok"
    /\ Len(files) = 2

\* The catalog entry an upload session's Writer stands for: the entry of the
\* session's name at the Writer's address.
WriterFile(file, entry) ==
    entry.name = file.name /\ entry.address = file.incomplete_file.address

\* The catalog entries read_file and get_file return for a session.
Returned(file, fs, st) ==
    {read_file(fs, st, file.name), read_file_by_hash(fs, st, file.hash)} \ {0}

C33_NestedUploadShorter ==
    [][Len(target'.calls) > Len(target.calls) /\ Len(target.calls) > 0 =>
          Len(Innermost(target').data) < Len(Innermost(target).data)]_vars

\* C34: Filesystem::new returns a filesystem whatever the flash holds and
\* whatever the first_block slot holds; a mount never panics.
C34_MountReturns == lastOp.op = "mount" => lastOp.res = "Ok"

\* C35: a DATA write whose chunk index is not below the session's chunk
\* count is rejected: the error is recorded in last_error, nothing is
\* written to the flash, the received bitmap stays as it was, and the
\* service does not crash.
C35_IndexOutOfRangeRejected ==
    [][(/\ lastOp'.op = "data"
        /\ service.currently_receiving # None
        /\ Len(lastOp'.input[2]) >= 1
        /\ lastOp'.input[1] >= IncompleteFile_chunk_count(service.currently_receiving))
       => /\ lastOp'.res \notin {"Ok", "panic", "storage panic"}
          /\ service'.last_error = [k |-> lastOp'.res]
          /\ storage' = storage
          /\ service'.currently_receiving = service.currently_receiving]_vars

\* The chunk of that index of the session's file as a client is to send
\* it: chunk_size bytes, the last chunk the bytes that remain (a full chunk
\* when the length is a multiple of chunk_size), with the CRC the request
\* declared.
RightChunk(file, index, data) ==
    /\ index < Len(file.checksums)
    /\ Len(data) = Min({file.chunk_length, file.length - index * file.chunk_length})
    /\ checksum(data) = file.checksums[index + 1]

\* C36: every accepted upload of at least one byte can be completed: each
\* chunk delivered with its declared CRC is accepted and sets its bit, the
\* last chunk too, which holds the remaining bytes and is a full chunk when
\* file_size is a multiple of chunk_size.
C36_ChunksAccepted ==
    [][(/\ lastOp'.op = "data"
        /\ lastOp'.res # "storage panic"
        /\ service.currently_receiving # None
        /\ service.currently_receiving.length >= 1
        /\ RightChunk(service.currently_receiving, lastOp'.input[1], lastOp'.input[2]))
       => /\ lastOp'.res \notin {"InvalidLength", "WrongChecksum", "panic"}
          /\ service'.currently_receiving # None =>
                service'.currently_receiving.received_chunks[lastOp'.input[1] + 1]]_vars

\* The files a mount of the flash would recognize, by address and metadata.
Recognized(st) == {<<b, st[b].head>> : b \in {x \in Blocks : Opens(st, x * BLOCK_SIZE)}}

\* C37: a write_file that fails, for whatever reason, adds no entry to the
\* catalog and leaves no metadata on the flash that a later mount would
\* recognize as a file.
C37_FailedWriteLeavesNothing ==
    [][(lastOp'.op = "write" /\ lastOp'.res # "Ok") =>
          /\ files' = cleanup_files(files)
          /\ Recognized(storage') \subseteq Recognized(storage)]_vars

\* The blocks reserved for a Writer.
Reserved(writer) == BlockRange(writer.address, writer.length)

NoProgram(fs, st, hash) ==
    \/ read_file_by_hash(fs, st, hash) = 0
    \/ ~upgrade(fs[read_file_by_hash(fs, st, hash)], st)

\* C39: a write to program_hash of a 32-byte hash for which no file exists,
\* or whose file cannot be upgraded, does not crash the management service:
\* the callback returns, nothing is sent to the runner, and later reads and
\* writes are still served.
C39_UnknownHashServed ==
    [][(/\ lastOp'.op = "program_hash"
        /\ lastOp'.input.k = "hash"
        /\ NoProgram(files, storage, lastOp'.input.hash))
       => /\ management'.ble = "ok"
          /\ management'.wasm_runner = management.wasm_runner]_vars

\* The calls of the guest's handler that have not returned.
Handling(h) == {i \in 1 .. Len(h.stack) : h.stack[i].fn = "on_event"}

\* C40: on_event is never entered while an on_event call has not returned,
\* also when the handler itself calls yield_now: at most one call of the
\* handler is in progress.
C40_OnEventNotReentered == Cardinality(Handling(host)) <= 1
====
